---- MODULE Spec2Model ----
(***************************************************************************)
(* State-machine model of the combat core of pixelated-disco-brawl:        *)
(* Scene (player health, score, pickup / throw), Player (closure health),  *)
(* NPCManager (damage, defeat, respawn, attack scheduling) and Controls    *)
(* (key dispatch).                                                         *)
(*                                                                         *)
(* Lengths, positions and velocities are in thousandths of a world unit,   *)
(* times in milliseconds.                                                  *)
(***************************************************************************)
EXTENDS Integers, Sequences, FiniteSets, TLC

VARIABLES
    now,            \* Date.now()
    playerPos,      \* playerAPI.body.position
    playerYaw,      \* index of the yaw of playerAPI.mesh.quaternion
    playerHealth,   \* Scene state playerHealth
    modelHealth,    \* closure variable `health` of the local Player
    gameOver,       \* Scene state gameOver
    playerScore,    \* Scene state playerScore
    otherPlayers,   \* otherPlayersRef: remote id -> closure health of its Player
    npcs,           \* NPCManager npcs.current
    timers,         \* pending setTimeout callbacks of NPCManager
    calls,          \* number of handler calls made from outside so far
    objects,        \* rigid bodies of the interactable objects
    heldObject,     \* Scene state heldObject
    nearbyObjects,  \* Scene state nearbyObjects
    heldLoops,      \* running updateHeldObjectPosition frame loops
    throwChecks,    \* pending checkCollision timer chains
    lastCall,       \* last call of handlePickup / handleThrow: its argument and
                    \* the heldObject it found
    lastKey,        \* code of the last key handled by Controls.onKeyDown
    keyCount,       \* number of key events handled
    healthLog,      \* last "Player health updated from .. to .." of handleDamagePlayer
    actor,          \* closure state of the local Player: isJumping, isPunching,
                    \* isKicking, the start times of its tweens, body.velocity.y
    scene,          \* Scene: sceneRef, gameReady, playerCreatedRef, the local
                    \* Players created, runs of the player effect; NPCManager:
                    \* isSpawning, runs of the spawn effect, outcome of the last
                    \* spawnNPC call; ids of the remote Players whose body is
                    \* in physicsWorld; the list of requested animation frame
                    \* callbacks and the callbacks the last frame ran
    spawnTimers,    \* pending setTimeout(spawnNPC, ...) callbacks
    game            \* Game: gameState, timeRemaining, whether the interval of
                    \* the timer effect is set, sceneKey

vars == <<now, playerPos, playerYaw, playerHealth, modelHealth, gameOver,
          playerScore, otherPlayers, npcs, timers, calls, objects, heldObject,
          nearbyObjects, heldLoops, throwChecks, lastCall, lastKey, keyCount,
          healthLog, actor, scene, spawnTimers, game>>

playerVars == <<playerHealth, modelHealth, gameOver, healthLog>>
holdVars   == <<objects, heldObject, nearbyObjects, heldLoops, throwChecks,
                 lastCall>>
keyVars    == <<lastKey, keyCount>>
sceneVars  == <<scene, spawnTimers, game>>

----------------------------------------------------------------------------
(* Bounds of the model *)

StartTime == 2000       \* Date.now() when the scene is mounted
FrameDt   == 500        \* shortest modelled gap between two animation frames
MaxTime   == 4500       \* no frame and no outside call after this time
MaxCalls  == 5          \* outside handler calls per run
MaxKeys   == 2          \* key events per run
MaxPickups == 2         \* handlePickup calls per run
HoldEnd   == 2300       \* no short frame after this time
DefeatEnd == 17000      \* no frame of the long fight after this time
ActorDt   == 33         \* gap between two frames of the local Player's loops
ActorEnd  == 3750       \* no frame of the local Player's loops after this time
MaxEffectRuns == 3      \* runs of one React effect per scene
MaxMoveKeys == 4        \* key events of the movement keys per run
SessionEnd == 3000      \* no frame of a session after this time
RafDt      == 17         \* gap between two animation frames of the callback list
LoopsEnd   == 2170       \* no frame of the callback list after this time
MaxSceneKey == 3         \* remounts of the Scene per run
PlayerStride == 2000    \* distance the player walks between two callbacks

----------------------------------------------------------------------------
(* Vectors *)

Vec(a, b, c) == [x |-> a, y |-> b, z |-> c]

Zero == Vec(0, 0, 0)

Max(a, b) == IF a >= b THEN a ELSE b

Abs(a) == IF a < 0 THEN -a ELSE a

LengthSq(v) == v.x * v.x + v.y * v.y + v.z * v.z

DistSq(a, b) == LengthSq(Vec(a.x - b.x, a.y - b.y, a.z - b.z))

Add(a, b) == Vec(a.x + b.x, a.y + b.y, a.z + b.z)

Sub(a, b) == Vec(a.x - b.x, a.y - b.y, a.z - b.z)

\* a / b rounded to the nearest integer (b > 0)
RoundDiv(a, b) ==
    IF a >= 0 THEN (2 * a + b) \div (2 * b) ELSE -((2 * (-a) + b) \div (2 * b))

RECURSIVE SqrtBetween(_, _, _)
SqrtBetween(n, lo, hi) ==
    IF lo >= hi THEN lo
    ELSE LET mid == (lo + hi + 1) \div 2
         IN  IF mid * mid <= n THEN SqrtBetween(n, mid, hi)
                               ELSE SqrtBetween(n, lo, mid - 1)

\* Math.sqrt, rounded down
ISqrt(n) == SqrtBetween(n, 0, 46340)

\* Vector3.length(), in thousandths
Length(v) == ISqrt(LengthSq(v))

\* v * s for a scalar s given in thousandths
Scaled(v, s) == Vec(RoundDiv(v.x * s, 1000), RoundDiv(v.y * s, 1000),
                    RoundDiv(v.z * s, 1000))

\* Vector3.normalize(): divideScalar(length() || 1); the unit is 1000
Normalize(v) ==
    LET len == Length(v)
    IN  IF len = 0 THEN v
        ELSE Vec(RoundDiv(v.x * 1000, len), RoundDiv(v.y * 1000, len),
                 RoundDiv(v.z * 1000, len))

RemoveAt(s, k) == [i \in 1..(Len(s) - 1) |-> IF i < k THEN s[i] ELSE s[i + 1]]

----------------------------------------------------------------------------
(* NPC_CONFIG and the literals of NPCManager, lengths in thousandths *)

spawnPoints ==
    << Vec(10000, 1000, 10000), Vec(-10000, 1000, 10000),
       Vec(10000, 1000, -10000), Vec(-10000, 1000, -10000),
       Vec(5000, 1000, -8000), Vec(-5000, 1000, 8000),
       Vec(-8000, 1000, -5000), Vec(8000, 1000, 5000),
       Vec(-12000, 1000, 0), Vec(12000, 1000, 0) >>

maxNPCs == 3
spawnInterval == 10000
followDistance    == 15000
attackDistance    == 2500
moveSpeed         == 50
attackCooldown    == 1500
avoidanceDistance == 2000
directionPeriod   == 3000
npcPunchDamage    == 8
npcKickDamage     == 15
kickDelay         == 300
attackResetDelay  == 1000
respawnDelay      == 5000
defeatPoints      == 100
minHeight         == 1000

(* Values drawn for Math.random() *)

\* Math.floor(Math.random() * spawnPoints.length) + 1
SpawnIndices == {1, 5}

\* the index the first spawnNPC call draws
FirstSpawnIndices == {1}

\* (Math.random() - 0.5) * positionVariance on x and z
SpawnOffsets == {Vec(-500, 0, 300)}

\* (Math.random() - 0.5) * 3 on x and z
TargetOffsets == {Zero, Vec(-1500, 0, 1000)}

\* (Math.random() - 0.5) * directionVariation
Jitters == {-100}

AttackTypes == {"punch", "kick"}

\* velocity world.step leaves on a character body standing on the floor
ContactVelocities == {Vec(0, -164, 0)}

NPCNames == {"Bouncerz"}

\* ids a damage call can carry: the NPC names and one id no NPC has
DamageIds == NPCNames \cup {"nobody"}

\* damage amounts of the callers of damageNpcFunction
DamageAmounts == {15, 25}

\* where the player's body can stand
PlayerPlaces == {Vec(0, 2000, 0), Vec(9000, 1000, 11500), Vec(-12000, 1000, -12000)}

----------------------------------------------------------------------------
(* Scene.handleDamagePlayer and Player.setHealth *)

\* Player: setHealth: (value) => { health = value; }
setHealth(value) == value

DamagedPlayerRearmed(p, amount) ==
    LET newHealth == Max(0, p.playerHealth - amount)
    IN  [playerHealth |-> newHealth,
         modelHealth  |-> setHealth(newHealth),
         gameOver     |-> newHealth <= 0 /\ ~p.gameOver,
         healthLog    |-> [from |-> p.playerHealth, to |-> newHealth]]

\* a handler that gives a defeated player a new life
DamagedPlayerRevived(p, amount) ==
    LET newHealth == IF p.playerHealth - amount <= 0 THEN 100
                     ELSE p.playerHealth - amount
    IN  [playerHealth |-> newHealth,
         modelHealth  |-> setHealth(newHealth),
         gameOver     |-> p.gameOver,
         healthLog    |-> [from |-> p.playerHealth, to |-> newHealth]]

\* the updater passed to setPlayerHealth: the new [playerHealth, modelHealth, gameOver]
DamagedPlayer(p, amount) ==
    LET newHealth == Max(0, p.playerHealth - amount)
    IN  [playerHealth |-> newHealth,
         modelHealth  |-> setHealth(newHealth),
         gameOver     |-> p.gameOver \/ (newHealth <= 0 /\ ~p.gameOver),
         healthLog    |-> [from |-> p.playerHealth, to |-> newHealth]]

PlayerNow == [playerHealth |-> playerHealth, modelHealth |-> modelHealth,
              gameOver |-> gameOver, healthLog |-> healthLog]

SetPlayer(p) ==
    /\ playerHealth' = p.playerHealth
    /\ modelHealth' = p.modelHealth
    /\ gameOver' = p.gameOver
    /\ healthLog' = p.healthLog

\* handleDamagePlayer called with an arbitrary amount
HandleDamagePlayer(amount) ==
    /\ calls < MaxCalls
    /\ calls' = calls + 1
    /\ SetPlayer(DamagedPlayer(PlayerNow, amount))
    /\ UNCHANGED <<now, playerPos, playerYaw, playerScore, otherPlayers, npcs,
                   timers, holdVars, keyVars, actor, sceneVars>>

----------------------------------------------------------------------------
(* Scene.handlePlayerUpdate: remote players *)

RemoteIds == {"r1", "r2"}

\* players: a record of remote id -> health carried by the update
HandlePlayerUpdate(players) ==
    /\ calls < MaxCalls
    /\ calls' = calls + 1
    /\ otherPlayers' =
          [id \in DOMAIN players |->
              IF id \in DOMAIN otherPlayers
              THEN setHealth(players[id])   \* existing player: setHealth
              ELSE 100]                     \* new Player(): health = 100
    \* Player() adds the body of a new player; delete otherPlayersRef.current[id]
    \* removes nothing from physicsWorld
    /\ scene' = [scene EXCEPT !.remoteBodies = @ \cup DOMAIN players]
    /\ UNCHANGED <<now, playerPos, playerYaw, playerVars, playerScore, npcs,
                   timers, holdVars, keyVars, actor, spawnTimers, game>>

----------------------------------------------------------------------------
(* NPCManager: spawnNPC *)

\* the record spawnNPC pushes: Player({position: spawnPoint, ...}), health 100
NewNPC(name, index, offset, target, t) ==
    [id |-> name,
     health |-> 100,
     visible |-> TRUE,
     pos |-> Add(spawnPoints[index], offset),
     vel |-> Zero,
     lastAttackTime |-> 0,
     isAttacking |-> FALSE,
     moveSpeed |-> moveSpeed,
     targetOffset |-> target,
     lastDirectionChange |-> t]

----------------------------------------------------------------------------
(* NPCManager: handleNPCDamage *)

\* a lookup that falls back on the first NPC
FindNPCOrFirst(list, id) ==
    IF \E i \in DOMAIN list : list[i].id = id
    THEN CHOOSE i \in DOMAIN list :
            /\ list[i].id = id
            /\ \A j \in DOMAIN list : list[j].id = id => i <= j
    ELSE IF list = << >> THEN 0 ELSE 1

\* npcs.current.find((n) => n.api.id === id): the index, 0 when there is none
FindNPC(list, id) ==
    IF \E i \in DOMAIN list : list[i].id = id
    THEN CHOOSE i \in DOMAIN list :
            /\ list[i].id = id
            /\ \A j \in DOMAIN list : list[j].id = id => i <= j
    ELSE 0

\* npc.api.health = Math.max(0, npc.api.health - damage)
DamagedHealth(health, damage) == Max(0, health - damage)

\* the state handleNPCDamage(id, damage) leaves: [npcs, timers, playerScore]
NPCDamaged(id, damage) ==
    LET i == FindNPC(npcs, id)
    IN  IF i = 0 THEN [npcs |-> npcs, timers |-> timers, playerScore |-> playerScore]
        ELSE LET h == DamagedHealth(npcs[i].health, damage)
             IN  IF h <= 0
                 THEN [npcs |-> [npcs EXCEPT ![i].health = h, ![i].visible = FALSE],
                       timers |-> Append(timers,
                           [kind |-> "respawn", npc |-> i, due |-> now + respawnDelay]),
                       playerScore |-> playerScore + defeatPoints]
                 ELSE [npcs |-> [npcs EXCEPT ![i].health = h],
                       timers |-> timers,
                       playerScore |-> playerScore]

HandleNPCDamage(id, damage) ==
    /\ calls < MaxCalls
    /\ now <= MaxTime
    /\ calls' = calls + 1
    /\ \E r \in {NPCDamaged(id, damage)} :
          /\ npcs' = r.npcs
          /\ timers' = r.timers
          /\ playerScore' = r.playerScore
    /\ UNCHANGED <<now, playerPos, playerYaw, playerVars, otherPlayers,
                   holdVars, keyVars, actor, sceneVars>>

RespawnedMoving(npc, index) ==
    [npc EXCEPT !.health = 100,
                !.pos = spawnPoints[index],
                !.visible = TRUE]

\* the respawn callback of handleNPCDamage, index drawn for Math.random()
Respawned(npc, index) ==
    [npc EXCEPT !.health = 100,
                !.pos = spawnPoints[index],
                !.vel = Zero,
                !.visible = TRUE]

RespawnTimer(k, index) ==
    /\ k \in DOMAIN timers
    /\ timers[k].kind = "respawn"
    /\ timers[k].due <= now
    /\ npcs' = [npcs EXCEPT ![timers[k].npc] = Respawned(@, index)]
    /\ timers' = RemoveAt(timers, k)
    /\ UNCHANGED <<now, playerPos, playerYaw, playerVars, playerScore,
                   otherPlayers, calls, holdVars, keyVars, actor, sceneVars>>

----------------------------------------------------------------------------
(* NPCManager: updateNPCs, one animation frame *)

\* what one NPC draws from Math.random() in a frame, and what the physics
\* step of the frame leaves as its velocity
Draws == [offset : TargetOffsets, jx : Jitters, jz : Jitters,
          attack : AttackTypes, contact : ContactVelocities]

RepulsionTowards(npcPosition, otherPosition) ==
    LET distance == Length(Sub(npcPosition, otherPosition))
    IN  IF distance < avoidanceDistance /\ distance > 0
        THEN LET repulsionStrength == 1000 - RoundDiv(distance * 1000, avoidanceDistance)
             IN  Scaled(Normalize(Sub(otherPosition, npcPosition)),
                        RoundDiv(repulsionStrength * 500, 1000))
        ELSE Zero

\* the repulsion one other NPC adds to the avoidance vector
Repulsion(npcPosition, otherPosition) ==
    LET distance == Length(Sub(npcPosition, otherPosition))
    IN  IF distance < avoidanceDistance /\ distance > 0
        THEN LET repulsionStrength == 1000 - RoundDiv(distance * 1000, avoidanceDistance)
             IN  Scaled(Normalize(Sub(npcPosition, otherPosition)),
                        RoundDiv(repulsionStrength * 500, 1000))
        ELSE Zero

RECURSIVE AvoidanceFrom(_, _, _)
AvoidanceFrom(list, i, j) ==
    IF j > Len(list) THEN Zero
    ELSE IF j = i THEN AvoidanceFrom(list, i, j + 1)
    ELSE Add(Repulsion(list[i].pos, list[j].pos), AvoidanceFrom(list, i, j + 1))

\* the walking branch: the new body position of NPC i
Walked(list, i, pp, r) ==
    LET npc == list[i]
        direction == Normalize(Sub(Add(pp, npc.targetOffset), npc.pos))
        steered == Normalize(Add(direction, AvoidanceFrom(list, i, 1)))
        finalDirection == Normalize(Vec(steered.x + r.jx, steered.y, steered.z + r.jz))
    IN  Vec(npc.pos.x + RoundDiv(finalDirection.x * npc.moveSpeed, 1000),
            Max(minHeight, npc.pos.y),
            npc.pos.z + RoundDiv(finalDirection.z * npc.moveSpeed, 1000))

CooldownPassedEarly(t, npc) == t - npc.lastAttackTime >= attackCooldown

\* now - npc.lastAttackTime > NPC_CONFIG.attackCooldown
CooldownPassed(t, npc) == t - npc.lastAttackTime > attackCooldown

\* !npc.isAttacking && cooldown passed
MayAttack(t, npc) == ~npc.isAttacking /\ CooldownPassed(t, npc)

\* the body of the loop without the follow test
UpdatedOneAnyRange(st, i, t, pp, r) ==
    LET npc0 == st.npcs[i]
        npc == IF t - npc0.lastDirectionChange > directionPeriod
               THEN [npc0 EXCEPT !.targetOffset = r.offset, !.lastDirectionChange = t]
               ELSE npc0
        list == [st.npcs EXCEPT ![i] = npc]
        distanceSq == DistSq(npc.pos, pp)
    IN  IF distanceSq > attackDistance * attackDistance
        THEN [st EXCEPT !.npcs = [list EXCEPT ![i].pos = Walked(list, i, pp, r),
                                              ![i].isAttacking = FALSE]]
        ELSE IF MayAttack(t, npc)
             THEN LET attacker == [list EXCEPT ![i].isAttacking = TRUE,
                                               ![i].lastAttackTime = t]
                      reset == [kind |-> "reset", npc |-> i,
                                due |-> t + attackResetDelay]
                  IN  IF r.attack = "punch"
                      THEN [npcs |-> attacker,
                            timers |-> Append(st.timers, reset),
                            player |-> DamagedPlayer(st.player, npcPunchDamage)]
                      ELSE [npcs |-> attacker,
                            timers |-> Append(Append(st.timers,
                                [kind |-> "kick", npc |-> i, due |-> t + kickDelay]),
                                reset),
                            player |-> st.player]
             ELSE [st EXCEPT !.npcs = list]

\* the body of npcs.current.forEach for NPC i, at time t; st is
\* [npcs, timers, player]
UpdatedOne(st, i, t, pp, r) ==
    LET npc0 == st.npcs[i]
        npc == IF t - npc0.lastDirectionChange > directionPeriod
               THEN [npc0 EXCEPT !.targetOffset = r.offset, !.lastDirectionChange = t]
               ELSE npc0
        list == [st.npcs EXCEPT ![i] = npc]
        distanceSq == DistSq(npc.pos, pp)
    IN  IF distanceSq < followDistance * followDistance
        THEN IF distanceSq > attackDistance * attackDistance
             THEN [st EXCEPT !.npcs = [list EXCEPT ![i].pos = Walked(list, i, pp, r),
                                                   ![i].isAttacking = FALSE]]
             ELSE IF MayAttack(t, npc)
                  THEN LET attacker == [list EXCEPT ![i].isAttacking = TRUE,
                                                    ![i].lastAttackTime = t]
                           reset == [kind |-> "reset", npc |-> i,
                                     due |-> t + attackResetDelay]
                       IN  IF r.attack = "punch"
                           THEN [npcs |-> attacker,
                                 timers |-> Append(st.timers, reset),
                                 player |-> DamagedPlayer(st.player, npcPunchDamage)]
                           ELSE [npcs |-> attacker,
                                 timers |-> Append(Append(st.timers,
                                     [kind |-> "kick", npc |-> i, due |-> t + kickDelay]),
                                     reset),
                                 player |-> st.player]
                  ELSE [st EXCEPT !.npcs = list]
        ELSE [st EXCEPT !.npcs = list]

RECURSIVE UpdatedFrom(_, _, _, _, _)
UpdatedFrom(st, i, t, pp, R) ==
    IF i > Len(st.npcs) THEN st
    ELSE UpdatedFrom(UpdatedOne(st, i, t, pp, R[i]), i + 1, t, pp, R)

\* world.step of the frame, on the character bodies
SteppedNPCs(list, R) == [i \in DOMAIN list |-> [list[i] EXCEPT !.vel = R[i].contact]]

\* a kick timer that runs out without its damage
KickTimerLost(k) ==
    /\ k \in DOMAIN timers
    /\ timers[k].kind = "kick"
    /\ timers[k].due <= now
    /\ timers' = RemoveAt(timers, k)
    /\ UNCHANGED <<now, playerPos, playerYaw, playerVars, playerScore,
                   otherPlayers, npcs, calls, holdVars, keyVars, actor, sceneVars>>

\* a kick that lands on every other NPC instead of the player
KickTimerOnNPCs(k) ==
    /\ k \in DOMAIN timers
    /\ timers[k].kind = "kick"
    /\ timers[k].due <= now
    /\ npcs' = [i \in DOMAIN npcs |->
                  IF i = timers[k].npc THEN npcs[i]
                  ELSE [npcs[i] EXCEPT !.health = Max(0, @ - npcKickDamage)]]
    /\ timers' = RemoveAt(timers, k)
    /\ UNCHANGED <<now, playerPos, playerYaw, playerVars, playerScore,
                   otherPlayers, calls, holdVars, keyVars, actor, sceneVars>>

\* the delayed kick damage: setTimeout(() => onDamagePlayer(kickDamage), 300)
KickTimer(k) ==
    /\ k \in DOMAIN timers
    /\ timers[k].kind = "kick"
    /\ timers[k].due <= now
    /\ SetPlayer(DamagedPlayer(PlayerNow, npcKickDamage))
    /\ timers' = RemoveAt(timers, k)
    /\ UNCHANGED <<now, playerPos, playerYaw, playerScore, otherPlayers, npcs,
                   calls, holdVars, keyVars, actor, sceneVars>>

\* setTimeout(() => { npc.isAttacking = false; }, 1000)
ResetTimer(k) ==
    /\ k \in DOMAIN timers
    /\ timers[k].kind = "reset"
    /\ timers[k].due <= now
    /\ npcs' = [npcs EXCEPT ![timers[k].npc].isAttacking = FALSE]
    /\ timers' = RemoveAt(timers, k)
    /\ UNCHANGED <<now, playerPos, playerYaw, playerVars, playerScore,
                   otherPlayers, calls, holdVars, keyVars, actor, sceneVars>>

----------------------------------------------------------------------------
(* The browser's clock between two callbacks *)

PendingDues == {timers[k].due : k \in DOMAIN timers}
               \cup {throwChecks[k].due : k \in DOMAIN throwChecks}

\* no callback is ready: the clock runs on to the earliest pending timer
TimePasses ==
    /\ PendingDues # {}
    /\ \A d \in PendingDues : d > now
    /\ now' = CHOOSE d \in PendingDues : \A e \in PendingDues : d <= e
    /\ UNCHANGED <<playerPos, playerYaw, playerVars, playerScore, otherPlayers,
                   npcs, timers, calls, holdVars, keyVars, actor, sceneVars>>

----------------------------------------------------------------------------
(* Interactable objects of the scene *)

ObjectIds == {"testBottle", "barBottle"}

\* height of the centre of the test bottle's cylinder standing on the floor
bottleRest == 300

\* type: body.userData.type ("none": the body has no userData);
\* tagged: a mesh of the scene carries userData.physicsId of the body;
\* support: the height at which the floor or the table under the body holds it
InitObjects ==
    [o \in ObjectIds |->
        IF o = "testBottle"
        THEN [type |-> "bottle", tagged |-> TRUE, mode |-> "DYNAMIC",
              pos |-> Vec(0, 1000, -3000), vel |-> Zero, support |-> bottleRest]
        ELSE [type |-> "none", tagged |-> FALSE, mode |-> "DYNAMIC",
              pos |-> Vec(0, 1100, 0), vel |-> Zero, support |-> 1100]]

----------------------------------------------------------------------------
(* Scene: nearby objects, pickup and throw *)

pickupRange   == 5000
throwUp       == 300
checkInterval == 100
maxChecks     == 30
hitRadius     == 2000
minHitSpeed   == 5000
gravity       == 9820
stepsPerSecond == 30

\* yaw of the player's mesh in quarter turns about the y axis
PlayerYaws == {0, 2}

\* Vector3.applyQuaternion for a yaw of q quarter turns
Rotated(v, q) ==
    CASE q = 0 -> v
      [] q = 1 -> Vec(v.z, v.y, -v.x)
      [] q = 2 -> Vec(-v.x, v.y, -v.z)
      [] q = 3 -> Vec(-v.z, v.y, v.x)

NearbyObjectsUnfiltered(objs, pp) ==
    {o \in DOMAIN objs : DistSq(pp, objs[o].pos) < pickupRange * pickupRange}

\* updatePlayerPosition: the objects it puts into nearbyObjects
NearbyObjects(objs, pp) ==
    {o \in DOMAIN objs :
        /\ objs[o].mode # "STATIC"
        /\ objs[o].type \in {"bottle", "chair"}
        /\ DistSq(pp, objs[o].pos) < pickupRange * pickupRange
        /\ objs[o].tagged}

\* the loops of the effect on heldObject that survive its cleanup:
\* cancelAnimationFrame(frameId) stops a loop only before its first frame
AfterCleanup(loops) == {l \in loops : ~l.first}

\* handlePickup(object); arg is "none" for a call without an object
PickupEffect(arg) ==
    /\ lastCall' = [name |-> "handlePickup", arg |-> arg, held |-> heldObject]
    /\ IF arg = "none"
       THEN UNCHANGED <<objects, heldObject, heldLoops>>
       ELSE /\ heldObject' = arg
            /\ objects' = [objects EXCEPT
                  ![arg].mode = "KINEMATIC",
                  ![arg].vel = Zero,
                  ![arg].pos = Add(Rotated(Vec(0, 1500, -1000), playerYaw), playerPos)]
            /\ heldLoops' = AfterCleanup(heldLoops) \cup {[obj |-> arg, first |-> TRUE]}

\* handlePickup called with an entry of nearbyObjects
HandlePickup(o) ==
    /\ calls < MaxCalls
    /\ o \in nearbyObjects
    /\ calls' = calls + 1
    /\ PickupEffect(o)
    /\ UNCHANGED <<now, playerPos, playerYaw, playerVars, playerScore, otherPlayers,
                   npcs, timers, nearbyObjects, throwChecks, keyVars, actor, sceneVars>>

ThrowForceOld(type) == IF type = "bottle" THEN 25000 ELSE 15000

\* const throwForce = thrownObject.type === "bottle" ? 30 : 20
throwForce(type) == IF type = "bottle" THEN 30000 ELSE 20000

\* the velocity handleThrow sets
ThrowVelocity(type, yaw) ==
    LET forward == Rotated(Vec(0, 0, -1000), yaw)
        throwDirection == Normalize(Vec(forward.x, throwUp, forward.z))
    IN  Scaled(throwDirection, throwForce(type))

ThrowEffectUnguarded ==
    /\ lastCall' = [name |-> "handleThrow", arg |-> "none", held |-> heldObject]
    /\ heldObject' = "none"
    /\ objects' = IF heldObject = "none" THEN objects
                  ELSE [objects EXCEPT
                          ![heldObject].mode = "DYNAMIC",
                          ![heldObject].vel = ThrowVelocity(objects[heldObject].type, playerYaw)]
    /\ heldLoops' = AfterCleanup(heldLoops)
    /\ throwChecks' = Append(throwChecks,
          [obj |-> IF heldObject = "none" THEN "testBottle" ELSE heldObject,
           checks |-> 0, due |-> now + checkInterval])

\* handleThrow() without thrownObject.body.type = CANNON.Body.DYNAMIC
ThrowEffectKinematic ==
    /\ lastCall' = [name |-> "handleThrow", arg |-> "none", held |-> heldObject]
    /\ IF heldObject = "none"
       THEN UNCHANGED <<objects, heldObject, heldLoops, throwChecks>>
       ELSE /\ heldObject' = "none"
            /\ objects' = [objects EXCEPT
                  ![heldObject].vel = ThrowVelocity(objects[heldObject].type, playerYaw)]
            /\ heldLoops' = AfterCleanup(heldLoops)
            /\ throwChecks' = Append(throwChecks,
                  [obj |-> heldObject, checks |-> 0, due |-> now + checkInterval])

\* handleThrow()
ThrowEffect ==
    /\ lastCall' = [name |-> "handleThrow", arg |-> "none", held |-> heldObject]
    /\ IF heldObject = "none"
       THEN UNCHANGED <<objects, heldObject, heldLoops, throwChecks>>
       ELSE /\ heldObject' = "none"
            /\ objects' = [objects EXCEPT
                  ![heldObject].mode = "DYNAMIC",
                  ![heldObject].vel = ThrowVelocity(objects[heldObject].type, playerYaw)]
            /\ heldLoops' = AfterCleanup(heldLoops)
            /\ throwChecks' = Append(throwChecks,
                  [obj |-> heldObject, checks |-> 0, due |-> now + checkInterval])

----------------------------------------------------------------------------
(* Scene: the collision checks of a throw *)

\* npcsRef.current: useRef([]), assigned nowhere; its entries would be the NPC
\* meshes, [pos, id] with id the mesh's userData.id ("none": it has none)
npcsRef == << >>

\* the first NPC mesh of npcsRef the check takes for hit, 0 when there is none
HitNPC(o) ==
    LET hits == {i \in DOMAIN npcsRef :
                    /\ DistSq(objects[o].pos, npcsRef[i].pos) < hitRadius * hitRadius
                    /\ LengthSq(objects[o].vel) > minHitSpeed * minHitSpeed
                    /\ npcsRef[i].id # "none"}
    IN  IF hits = {} THEN 0 ELSE CHOOSE i \in hits : \A j \in hits : i <= j

\* const damage = thrownObject.type === "bottle" ? 15 : 25
ThrowDamage(type) == IF type = "bottle" THEN 15 ELSE 25

\* checkCollision without its return at maxChecks: the chain stays pending
CheckCollisionStuck(k) ==
    /\ k \in DOMAIN throwChecks
    /\ throwChecks[k].due <= now
    /\ IF throwChecks[k].checks + 1 > maxChecks
       THEN UNCHANGED throwChecks
       ELSE throwChecks' = [throwChecks EXCEPT ![k].checks = @ + 1,
                                               ![k].due = now + checkInterval]
    /\ UNCHANGED <<now, playerPos, playerYaw, playerVars, otherPlayers, calls,
                   objects, heldObject, nearbyObjects, heldLoops, lastCall, keyVars,
                   actor, sceneVars, npcs, timers, playerScore>>

\* one run of checkCollision of the throw throwChecks[k]
CheckCollision(k) ==
    /\ k \in DOMAIN throwChecks
    /\ throwChecks[k].due <= now
    /\ LET c == throwChecks[k]
           hit == HitNPC(c.obj)
       IN  IF c.checks + 1 > maxChecks
           THEN /\ throwChecks' = RemoveAt(throwChecks, k)
                /\ UNCHANGED <<npcs, timers, playerScore>>
           ELSE IF hit # 0
           THEN /\ throwChecks' = RemoveAt(throwChecks, k)
                /\ \E r \in {NPCDamaged(npcsRef[hit].id, ThrowDamage(objects[c.obj].type))} :
                      /\ npcs' = r.npcs
                      /\ timers' = r.timers
                      /\ playerScore' = r.playerScore + ThrowDamage(objects[c.obj].type)
           ELSE /\ throwChecks' = [throwChecks EXCEPT
                      ![k] = [c EXCEPT !.checks = c.checks + 1,
                                       !.due = now + checkInterval]]
                /\ UNCHANGED <<npcs, timers, playerScore>>
    /\ UNCHANGED <<now, playerPos, playerYaw, playerVars, otherPlayers, calls,
                   objects, heldObject, nearbyObjects, heldLoops, lastCall, keyVars, actor, sceneVars>>

----------------------------------------------------------------------------
(* Player: jump, punch, kick and the character body of createCharacterBody *)

jumpVelocity == 8000        \* body.velocity.y = 8
jumpThreshold == 100        \* body.velocity.y > 0.1
jumpFlagDelay == 1000       \* setTimeout(() => { isJumping = false; }, 1000)
punchDuration == 300
kickDuration == 400
footRest == 1150            \* height of the body's centre when the foot sphere
                            \* (radius 0.25 at y = -0.9) stands on the floor
dampingPerStep == 926       \* (1 - linearDamping) ^ (1 / 30), in thousandths

Min(a, b) == IF a <= b THEN a ELSE b

\* characterController.isJumping()
IsJumping(a) == a.velY > jumpThreshold

\* Player.jump: the closure state it leaves
Jumped(a) ==
    IF ~a.isJumping /\ ~IsJumping(a)
    THEN [a EXCEPT !.velY = jumpVelocity, !.isJumping = TRUE]
    ELSE a

\* Player.punch at time t
Punched(a, t) ==
    IF ~a.isPunching THEN [a EXCEPT !.isPunching = TRUE, !.punchStart = t] ELSE a

\* Player.kick at time t
Kicked(a, t) ==
    IF ~a.isKicking THEN [a EXCEPT !.isKicking = TRUE, !.kickStart = t] ELSE a

\* Math.min(elapsed / duration, 1), in thousandths
Progress(elapsed, duration) == Min((elapsed * 1000) \div duration, 1000)

AnimatedFrozen(a, t) == a

\* the animate callbacks of the running tweens, in the frame at time t
Animated(a, t) ==
    LET punchOver == a.isPunching /\ ~(Progress(t - a.punchStart, punchDuration) < 1000)
        kickOver == a.isKicking /\ ~(Progress(t - a.kickStart, kickDuration) < 1000)
    IN  [a EXCEPT !.isPunching = a.isPunching /\ ~punchOver,
                  !.punchStart = IF punchOver THEN 0 ELSE @,
                  !.isKicking = a.isKicking /\ ~kickOver,
                  !.kickStart = IF kickOver THEN 0 ELSE @]

\* world.step(1 / 30) on the character body: height y and vertical velocity
\* vy; damping, gravity, then the contact with the floor
SteppedCharacter(y, vy) ==
    IF y <= footRest /\ vy <= 0
    THEN [y |-> y, vy |-> 0]
    ELSE LET v == RoundDiv(vy * dampingPerStep, 1000) - RoundDiv(gravity, stepsPerSecond)
             h == y + RoundDiv(v, stepsPerSecond)
         IN  IF h <= footRest THEN [y |-> footRest, vy |-> 0]
                              ELSE [y |-> h, vy |-> v]

\* setTimeout(() => { isJumping = false; }, 1000)
JumpTimer(k) ==
    /\ k \in DOMAIN timers
    /\ timers[k].kind = "jump"
    /\ timers[k].due <= now
    /\ actor' = [actor EXCEPT !.isJumping = FALSE]
    /\ timers' = RemoveAt(timers, k)
    /\ UNCHANGED <<now, playerPos, playerYaw, playerVars, playerScore, otherPlayers,
                   npcs, calls, holdVars, keyVars, sceneVars>>

----------------------------------------------------------------------------
(* Controls.onKeyDown *)

\* Space calls onJump(), KeyZ onPunch(), KeyX onKick(), KeyE onPickup(),
\* KeyQ onThrow(); the first three are the local Player's jump, punch, kick
KeyDown(code) ==
    /\ keyCount < MaxKeys
    /\ keyCount' = keyCount + 1
    /\ lastKey' = code
    /\ CASE code = "KeyE" ->
              PickupEffect("none") /\ UNCHANGED <<throwChecks, actor, timers>>
         [] code = "KeyQ" ->
              ThrowEffect /\ UNCHANGED <<actor, timers>>
         [] code = "Space" ->
              /\ actor' = Jumped(actor)
              /\ timers' = IF Jumped(actor) # actor
                           THEN Append(timers, [kind |-> "jump", npc |-> 0,
                                                due |-> now + jumpFlagDelay])
                           ELSE timers
              /\ UNCHANGED <<objects, heldObject, heldLoops, throwChecks, lastCall>>
         [] code = "KeyZ" ->
              /\ actor' = Punched(actor, now)
              /\ UNCHANGED <<objects, heldObject, heldLoops, throwChecks, lastCall,
                             timers>>
         [] code = "KeyX" ->
              /\ actor' = Kicked(actor, now)
              /\ UNCHANGED <<objects, heldObject, heldLoops, throwChecks, lastCall,
                             timers>>
    /\ UNCHANGED <<now, playerPos, playerYaw, playerVars, playerScore, otherPlayers,
                   npcs, calls, nearbyObjects, sceneVars>>

\* the player walks to another place; the last updatePlayerPosition of the walk
\* publishes the nearby objects of that place
MovePlayer(p) ==
    /\ p # playerPos
    /\ keyCount < MaxKeys
    /\ keyCount' = keyCount + 1
    /\ playerPos' = p
    /\ nearbyObjects' = NearbyObjects(objects, p)
    /\ UNCHANGED <<now, playerYaw, playerVars, playerScore, otherPlayers, npcs,
                   timers, calls, objects, heldObject, heldLoops, throwChecks,
                   lastCall, lastKey, actor, sceneVars>>

\* the controls turn the player's mesh
TurnPlayer(q) ==
    /\ q # playerYaw
    /\ keyCount < MaxKeys
    /\ keyCount' = keyCount + 1
    /\ playerYaw' = q
    /\ UNCHANGED <<now, playerPos, playerVars, playerScore, otherPlayers, npcs,
                   timers, calls, holdVars, lastKey, actor, sceneVars>>

----------------------------------------------------------------------------
(* One animation frame: physicsLoop, updateNPCs, updatePlayerPosition and the
   updateHeldObjectPosition loops *)

\* world.step(1 / 30) on one body: gravity, then the floor or table under it
SteppedBody(b) ==
    IF b.mode # "DYNAMIC" \/ (b.pos.y <= b.support /\ b.vel.y <= 0)
    THEN b
    ELSE LET vy == b.vel.y - RoundDiv(gravity, stepsPerSecond)
             y == b.pos.y + RoundDiv(vy, stepsPerSecond)
         IN  IF y <= b.support
             THEN [b EXCEPT !.pos = Vec(b.pos.x + RoundDiv(b.vel.x, stepsPerSecond),
                                        b.support,
                                        b.pos.z + RoundDiv(b.vel.z, stepsPerSecond)),
                            !.vel = Zero]
             ELSE [b EXCEPT !.pos = Vec(b.pos.x + RoundDiv(b.vel.x, stepsPerSecond),
                                        y,
                                        b.pos.z + RoundDiv(b.vel.z, stepsPerSecond)),
                            !.vel = Vec(b.vel.x, vy, b.vel.z)]

SteppedObjects(objs) == [o \in DOMAIN objs |-> SteppedBody(objs[o])]

\* updateHeldObjectPosition: the hand position for an object of this type
HandPosition(type, pp, yaw) ==
    LET offsetDistance == IF type = "bottle" THEN 800 ELSE 1000
        offsetHeight == IF type = "bottle" THEN 1200 ELSE 800
    IN  Add(Rotated(Vec(0, offsetHeight, -offsetDistance), yaw), pp)

\* every running loop writes the hand position into the body it captured
Anchored(objs, loops, pp, yaw) ==
    [o \in DOMAIN objs |->
        IF \E l \in loops : l.obj = o
        THEN [objs[o] EXCEPT !.pos = HandPosition(objs[o].type, pp, yaw)]
        ELSE objs[o]]

\* the callbacks of the frame that comes dt after the clock's time, but for
\* those of the local Player: updateNPCs, physicsLoop on the objects,
\* updatePlayerPosition and the updateHeldObjectPosition loops
WorldFrame(dt, R) ==
    /\ now' = now + dt
    /\ \E st \in {UpdatedFrom([npcs |-> SteppedNPCs(npcs, R), timers |-> timers,
                                player |-> PlayerNow], 1, now + dt, playerPos, R)} :
          /\ npcs' = st.npcs
          /\ timers' = st.timers
          /\ SetPlayer(st.player)
    /\ \E stepped \in {SteppedObjects(objects)} :
          /\ nearbyObjects' = NearbyObjects(stepped, playerPos)
          /\ objects' = Anchored(stepped, heldLoops, playerPos, playerYaw)
    /\ heldLoops' = {[l EXCEPT !.first = FALSE] : l \in heldLoops}
    /\ UNCHANGED <<playerYaw, playerScore, otherPlayers, calls,
                   heldObject, throwChecks, lastCall, keyVars, sceneVars>>

\* a frame while the local Player stands where the controls put it, with no
\* tween running
Frame(dt, R) == WorldFrame(dt, R) /\ UNCHANGED <<playerPos, actor>>

\* a frame with the local Player's callbacks: the animate callbacks of its
\* tweens and world.step on its body
ActorFrame(dt, R) ==
    /\ WorldFrame(dt, R)
    /\ \E c \in {SteppedCharacter(playerPos.y, actor.velY)} :
          /\ playerPos' = [playerPos EXCEPT !.y = c.y]
          /\ actor' = [Animated(actor, now + dt) EXCEPT !.velY = c.vy]

----------------------------------------------------------------------------
(* Game: the time of a round *)

gameTime == 300          \* useState(300), setTimeRemaining(300)

----------------------------------------------------------------------------
(* The browser's list of animation frame callbacks *)

\* the list when the scene is mounted: physicsLoop from the scene effect, then,
\* in the commit that follows setPlayerAPI, the loops of the children Controls
\* and NPCManager and of the Scene's own position effect. held says that the
\* id of the entry is the one its effect's cleanup will cancel
MountedCallbacks ==
    <<[fn |-> "physicsLoop", held |-> FALSE],
      [fn |-> "updateMovement", held |-> TRUE],
      [fn |-> "updateNPCs", held |-> TRUE],
      [fn |-> "updatePlayerPosition", held |-> TRUE]>>

----------------------------------------------------------------------------
(* The mounted scene *)

Init ==
    /\ now = StartTime
    /\ playerPos = Vec(0, 2000, 0)
    /\ playerYaw = 0
    /\ playerHealth = 100
    /\ modelHealth = 100
    /\ gameOver = FALSE
    /\ playerScore = 0
    /\ otherPlayers = [id \in {} |-> 100]
    /\ \E name \in NPCNames, index \in FirstSpawnIndices, offset \in SpawnOffsets,
          target \in TargetOffsets :
          npcs = <<NewNPC(name, index, offset, target, StartTime)>>
    /\ timers = <<>>
    /\ calls = 0
    /\ objects = InitObjects
    /\ heldObject = "none"
    /\ nearbyObjects = {}
    /\ heldLoops = {}
    /\ throwChecks = <<>>
    /\ lastCall = [name |-> "none", arg |-> "none", held |-> "none"]
    /\ lastKey = "none"
    /\ keyCount = 0
    /\ healthLog = [from |-> 100, to |-> 100]
    /\ actor = [isJumping |-> FALSE, isPunching |-> FALSE, isKicking |-> FALSE,
                punchStart |-> 0, kickStart |-> 0, velY |-> 0,
                velX |-> 0, velZ |-> 0, pressed |-> {}, isWalking |-> FALSE]
    /\ scene = [phase |-> "mounted", sceneRef |-> TRUE, gameReady |-> TRUE,
                playerCreatedRef |-> TRUE, localPlayers |-> <<Vec(0, 2000, 0)>>,
                playerRuns |-> 2, managerMounted |-> TRUE, isSpawning |-> TRUE,
                spawnRuns |-> 1, lastSpawn |-> "spawned", remoteBodies |-> {},
                raf |-> MountedCallbacks, ran |-> <<>>, lastTime |-> 0,
                positionSet |-> FALSE, heldEffectFor |-> "none"]
    /\ spawnTimers = <<[due |-> StartTime + spawnInterval, spawning |-> TRUE]>>
    /\ game = [gameState |-> "playing", timeRemaining |-> gameTime,
               interval |-> TRUE, sceneKey |-> 1]

----------------------------------------------------------------------------
(* Health under arbitrary arguments *)

HealthArgs == {-20, 0, 55, 100, 150}
DamageArgs == {-30, 8, 25, 120}

AnyPlayerDamage == \E amount \in DamageArgs : HandleDamagePlayer(amount)

AnyNPCDamage == \E id \in DamageIds, damage \in DamageArgs : HandleNPCDamage(id, damage)

AnyPlayerUpdate ==
    \E ids \in SUBSET RemoteIds : \E players \in [ids -> HealthArgs] :
        HandlePlayerUpdate(players)

AnyRespawn == \E k \in DOMAIN timers, index \in SpawnIndices : RespawnTimer(k, index)

NextHealth == AnyPlayerDamage \/ AnyNPCDamage \/ AnyPlayerUpdate \/ AnyRespawn
              \/ TimePasses

SpecHealth == Init /\ [][NextHealth]_vars

----------------------------------------------------------------------------
(* The NPC loop with the damage its callers deal *)

CallerNPCDamage == \E id \in DamageIds, damage \in DamageAmounts : HandleNPCDamage(id, damage)

\* frames FrameDt apart until MaxTime
AnyFrame ==
    /\ now + FrameDt <= MaxTime
    /\ \E R \in [DOMAIN npcs -> Draws] : Frame(FrameDt, R)

\* with the frames over, the clock runs on to the pending timers
AfterFrames == now + FrameDt > MaxTime /\ TimePasses

AnyKick == \E k \in DOMAIN timers : KickTimer(k)

AnyReset == \E k \in DOMAIN timers : ResetTimer(k)

AnyMove == \E p \in PlayerPlaces : MovePlayer(p)

NextNPC == CallerNPCDamage \/ AnyFrame \/ AnyKick \/ AnyReset \/ AnyRespawn
           \/ AnyMove \/ AfterFrames

SpecNPC == Init /\ [][NextNPC]_vars

\* the animation frames keep coming: AnyFrame always advances the clock, so
\* WF_vars(AnyFrame) says that the clock passes the last frame of the window
FramesKeepComing == []<>(now + FrameDt > MaxTime)

\* frames keep coming, every timer callback runs once it is due, and the
\* clock does not stop
FairSpecNPC ==
    SpecNPC /\ FramesKeepComing /\ WF_vars(AnyRespawn) /\ WF_vars(AnyKick)
            /\ WF_vars(AnyReset) /\ WF_vars(AfterFrames)

----------------------------------------------------------------------------
(* Pickup and throw, with a frame for every collision check *)

AnyPickup == calls < MaxPickups /\ \E o \in ObjectIds : HandlePickup(o)

AnyKey == \E code \in {"KeyE", "KeyQ"} : KeyDown(code)

AnyTurn == \E q \in PlayerYaws : TurnPlayer(q)

AnyCheck == \E k \in DOMAIN throwChecks : CheckCollision(k)

\* frames checkInterval apart until HoldEnd
ShortFrame ==
    /\ now + checkInterval <= HoldEnd
    /\ \E R \in [DOMAIN npcs -> Draws] : Frame(checkInterval, R)

AfterShortFrames == now + checkInterval > HoldEnd /\ TimePasses

NextHold == AnyPickup \/ AnyKey \/ AnyMove \/ AnyTurn \/ ShortFrame \/ AnyCheck
            \/ AnyKick \/ AnyReset \/ AfterShortFrames

SpecHold == Init /\ [][NextHold]_vars

\* the frames keep coming, every timer callback runs once it is due, and the
\* clock does not stop
FairSpecHold ==
    /\ SpecHold
    /\ []<>(now + checkInterval > HoldEnd)
    /\ WF_vars(AnyCheck) /\ WF_vars(AnyKick) /\ WF_vars(AnyReset)
    /\ WF_vars(AfterShortFrames)

----------------------------------------------------------------------------
(* The long fight: the NPC attacks until the player is defeated *)

\* frames FrameDt apart until DefeatEnd; the timer callbacks that are due run
\* before the next frame
LongFrame ==
    /\ now + FrameDt <= DefeatEnd
    /\ \A k \in DOMAIN timers : timers[k].due > now
    /\ \E R \in [DOMAIN npcs -> Draws] : Frame(FrameDt, R)

AfterLongFrames == now + FrameDt > DefeatEnd /\ TimePasses

\* the player walks about before the second frame and then stays
EarlyMove == now <= StartTime + FrameDt /\ AnyMove

NextDefeat == LongFrame \/ AnyKick \/ AnyReset \/ EarlyMove \/ AfterLongFrames

SpecDefeat == Init /\ [][NextDefeat]_vars

----------------------------------------------------------------------------
(* The local Player's actions: jump, punch and kick next to an NPC *)

\* an attack key, early enough for its tween to end within the frames
AttackKey ==
    /\ now + kickDuration + ActorDt <= ActorEnd
    /\ \E code \in {"KeyZ", "KeyX"} : KeyDown(code)

ActorKey == KeyDown("Space") \/ AttackKey

\* before the second frame the player walks up to an NPC and stops with the
\* NPC 1.0 straight ahead
AnyApproach ==
    /\ now <= StartTime + ActorDt
    /\ \E i \in DOMAIN npcs :
          LET ahead == Rotated(Vec(0, 0, -1000), playerYaw)
          IN  MovePlayer(Vec(npcs[i].pos.x - ahead.x, playerPos.y,
                             npcs[i].pos.z - ahead.z))

\* frames ActorDt apart until ActorEnd; the timer callbacks that are due run
\* before the next frame
ActorTick ==
    /\ now + ActorDt <= ActorEnd
    /\ \A k \in DOMAIN timers : timers[k].due > now
    /\ \E R \in [DOMAIN npcs -> Draws] : ActorFrame(ActorDt, R)

AnyJumpTimer == \E k \in DOMAIN timers : JumpTimer(k)

AfterActorFrames == now + ActorDt > ActorEnd /\ TimePasses

NextActor == ActorKey \/ AnyApproach \/ ActorTick \/ AnyJumpTimer \/ AnyKick
             \/ AnyReset \/ AfterActorFrames

SpecActor == Init /\ [][NextActor]_vars

\* punches and kicks alone, with the frames of their tweens
NextAttack == AttackKey \/ ActorTick

SpecAttack == Init /\ [][NextAttack]_vars

\* the frames keep coming: ActorTick always advances the clock, so
\* WF_vars(ActorTick) says that the clock reaches the last frame of the window
ActorFramesKeepComing == []<>(now + ActorDt > ActorEnd)

FairSpecAttack == SpecAttack /\ ActorFramesKeepComing

\* the player, who looks along -z, walks one stride backwards
StepAway == MovePlayer(Vec(playerPos.x, playerPos.y, playerPos.z + PlayerStride))

\* the NPC's attacks on a player who comes up to it and walks away again
NextKick == AnyApproach \/ StepAway \/ ActorTick \/ AnyKick \/ AnyReset \/ AfterActorFrames

SpecKick == Init /\ [][NextKick]_vars


----------------------------------------------------------------------------
(* The life of one Scene: mount, player creation, NPC spawning, unmount *)

\* (Math.random() - 0.5) * positionVariance of the spawns of a session
SessionOffsets == {Vec(-500, 0, 300), Vec(500, 0, -300)}

\* (Math.random() - 0.5) * 3 on x and z of the spawns of a session
SessionTargets == {Zero}

\* Math.random() * 2000 added to the spawn interval
SpawnJitters == {0, 1500}

\* the scene record before any effect has run
Rendered ==
    [phase |-> "rendered", sceneRef |-> FALSE, gameReady |-> FALSE,
     playerCreatedRef |-> FALSE, localPlayers |-> <<>>, playerRuns |-> 0,
     managerMounted |-> FALSE, isSpawning |-> TRUE, spawnRuns |-> 0,
     lastSpawn |-> "none", remoteBodies |-> {},
     raf |-> <<>>, ran |-> <<>>, lastTime |-> 0, positionSet |-> FALSE,
     heldEffectFor |-> "none"]

InitMount ==
    /\ now = StartTime
    /\ playerPos = Vec(0, 2000, 0)
    /\ playerYaw = 0
    /\ playerHealth = 100
    /\ modelHealth = 100
    /\ gameOver = FALSE
    /\ playerScore = 0
    /\ otherPlayers = [id \in {} |-> 100]
    /\ npcs = <<>>
    /\ timers = <<>>
    /\ calls = 0
    /\ objects = InitObjects
    /\ heldObject = "none"
    /\ nearbyObjects = {}
    /\ heldLoops = {}
    /\ throwChecks = <<>>
    /\ lastCall = [name |-> "none", arg |-> "none", held |-> "none"]
    /\ lastKey = "none"
    /\ keyCount = 0
    /\ healthLog = [from |-> 100, to |-> 100]
    /\ actor = [isJumping |-> FALSE, isPunching |-> FALSE, isKicking |-> FALSE,
                punchStart |-> 0, kickStart |-> 0, velY |-> 0,
                velX |-> 0, velZ |-> 0, pressed |-> {}, isWalking |-> FALSE]
    /\ scene = Rendered
    /\ spawnTimers = <<>>
    /\ game = [gameState |-> "menu", timeRemaining |-> gameTime,
               interval |-> FALSE, sceneKey |-> 0]

\* one run of the player creation effect on the scene record s; gameReady is
\* the state of the render the run belongs to
PlayerEffectUnguarded(s) ==
    IF ~s.gameReady \/ ~s.sceneRef
    THEN [s EXCEPT !.playerRuns = @ + 1]
    ELSE [s EXCEPT !.playerRuns = @ + 1,
                   !.playerCreatedRef = TRUE,
                   !.localPlayers = Append(@, Vec(0, 2000, 0))]

PlayerEffect(s) ==
    IF ~s.gameReady \/ ~s.sceneRef \/ s.playerCreatedRef
    THEN [s EXCEPT !.playerRuns = @ + 1]
    ELSE [s EXCEPT !.playerRuns = @ + 1,
                   !.playerCreatedRef = TRUE,
                   !.localPlayers = Append(@, Vec(0, 2000, 0))]

\* the commit of a render: scene', and for a player created in it
\* setPlayerHealth(100) and a body at the spawn point
Committed(s) ==
    /\ scene' = PlayerEffect(s)
    /\ IF Len(scene'.localPlayers) > Len(scene.localPlayers)
       THEN /\ playerHealth' = 100
            /\ modelHealth' = 100
            /\ playerPos' = scene'.localPlayers[Len(scene'.localPlayers)]
       ELSE UNCHANGED <<playerHealth, modelHealth, playerPos>>
    /\ UNCHANGED <<now, playerYaw, gameOver, healthLog, playerScore, otherPlayers,
                   npcs, timers, calls, holdVars, keyVars, actor, spawnTimers, game>>

\* the first commit: the scene effect fills sceneRef and calls
\* setGameReady(true); the player effect of this render still sees
\* gameReady = false
SceneMount ==
    /\ scene.phase = "rendered"
    /\ Committed([scene EXCEPT !.phase = "mounted", !.sceneRef = TRUE])

\* the render with gameReady = true: the player effect runs again
GameReadyRender ==
    /\ scene.phase = "mounted"
    /\ ~scene.gameReady
    /\ Committed([scene EXCEPT !.gameReady = TRUE])

\* a later run of the player effect (its dependency onUpdatePlayerInfo changed)
PlayerEffectRerun ==
    /\ scene.phase = "mounted"
    /\ scene.gameReady
    /\ scene.playerRuns < MaxEffectRuns
    /\ Committed(scene)

\* spawnNPC() of an effect run whose closure holds isSpawning = spawning, at
\* time t: [npcs, spawnTimers, lastSpawn]
SpawnedUncapped(list, pending, spawning, t, name, index, offset, target, jitter) ==
    IF ~spawning
    THEN [npcs |-> list, spawnTimers |-> pending, lastSpawn |-> "stopped"]
    ELSE LET pushed == Append(list, NewNPC(name, index, offset, target, t))
         IN  [npcs |-> pushed,
              spawnTimers |->
                  IF Len(pushed) < maxNPCs
                  THEN Append(pending, [due |-> t + spawnInterval + jitter,
                                        spawning |-> spawning])
                  ELSE pending,
              lastSpawn |-> "spawned"]

Spawned(list, pending, spawning, t, name, index, offset, target, jitter) ==
    IF Len(list) >= maxNPCs
    THEN [npcs |-> list, spawnTimers |-> pending, lastSpawn |-> "full"]
    ELSE IF ~spawning
    THEN [npcs |-> list, spawnTimers |-> pending, lastSpawn |-> "stopped"]
    ELSE LET pushed == Append(list, NewNPC(name, index, offset, target, t))
         IN  [npcs |-> pushed,
              spawnTimers |->
                  IF Len(pushed) < maxNPCs
                  THEN Append(pending, [due |-> t + spawnInterval + jitter,
                                        spawning |-> spawning])
                  ELSE pending,
              lastSpawn |-> "spawned"]

\* one spawnNPC call, the random values drawn; s is the scene record it leaves
\* but for lastSpawn
SpawnNPC(s, pending, spawning) ==
    /\ \E name \in NPCNames, index \in FirstSpawnIndices, offset \in SessionOffsets,
          target \in SessionTargets, jitter \in SpawnJitters :
          \E r \in {Spawned(npcs, pending, spawning, now, name, index, offset,
                            target, jitter)} :
             /\ npcs' = r.npcs
             /\ spawnTimers' = r.spawnTimers
             /\ scene' = [s EXCEPT !.lastSpawn = r.lastSpawn]
    /\ UNCHANGED <<now, playerPos, playerYaw, playerVars, playerScore,
                   otherPlayers, timers, calls, holdVars, keyVars, actor, game>>

\* NPCManager is rendered once the player exists; its spawn effect runs
ManagerMount ==
    /\ scene.phase = "mounted"
    /\ scene.gameReady /\ scene.sceneRef
    /\ Len(scene.localPlayers) > 0
    /\ ~scene.managerMounted
    /\ SpawnNPC([scene EXCEPT !.managerMounted = TRUE, !.spawnRuns = 1],
                spawnTimers, scene.isSpawning)

\* the spawn effect runs again (scene or physicsWorld changed): the cleanup
\* of the run before calls setIsSpawning(false), the new run closes over the
\* isSpawning of its render
SpawnEffectRerun ==
    /\ scene.phase = "mounted"
    /\ scene.managerMounted
    /\ scene.spawnRuns < MaxEffectRuns
    /\ SpawnNPC([scene EXCEPT !.isSpawning = FALSE, !.spawnRuns = @ + 1],
                spawnTimers, scene.isSpawning)

\* setTimeout(spawnNPC, ...) fires; nothing ever clears it
SpawnTimer(k) ==
    /\ k \in DOMAIN spawnTimers
    /\ spawnTimers[k].due <= now
    /\ SpawnNPC(scene, RemoveAt(spawnTimers, k), spawnTimers[k].spawning)

\* the Scene is unmounted: the cleanups of the scene effect and, if
\* NPCManager was rendered, of the spawn effect
SceneUnmount ==
    /\ scene.phase = "mounted"
    /\ scene' = [scene EXCEPT !.phase = "unmounted",
                              !.playerCreatedRef = FALSE,
                              !.isSpawning = IF scene.managerMounted THEN FALSE ELSE @]
    /\ UNCHANGED <<now, playerPos, playerYaw, playerVars, playerScore, otherPlayers,
                   npcs, timers, calls, holdVars, keyVars, actor, spawnTimers, game>>

AnySpawnTimer == \E k \in DOMAIN spawnTimers : SpawnTimer(k)

SessionDues == PendingDues \cup {spawnTimers[k].due : k \in DOMAIN spawnTimers}

\* the frames of updateNPCs while NPCManager is rendered, until SessionEnd;
\* the timer callbacks that are due run before the next frame
SessionFrame ==
    /\ scene.phase = "mounted"
    /\ scene.managerMounted
    /\ now + FrameDt <= SessionEnd
    /\ \A d \in SessionDues : d > now
    /\ \E R \in [DOMAIN npcs -> Draws] : Frame(FrameDt, R)

\* with the frames over, the clock runs on to the earliest pending timer
SessionClock ==
    /\ now + FrameDt > SessionEnd \/ scene.phase = "unmounted"
    /\ SessionDues # {}
    /\ \A d \in SessionDues : d > now
    /\ now' = CHOOSE d \in SessionDues : \A e \in SessionDues : d <= e
    /\ UNCHANGED <<playerPos, playerYaw, playerVars, playerScore, otherPlayers,
                   npcs, timers, calls, holdVars, keyVars, actor, sceneVars>>

\* the player stands at one of its places once it exists
SessionMove == Len(scene.localPlayers) > 0 /\ now = StartTime /\ AnyMove

NextSession == SceneMount \/ GameReadyRender \/ PlayerEffectRerun \/ ManagerMount
               \/ SpawnEffectRerun \/ AnySpawnTimer \/ SceneUnmount
               \/ SessionFrame \/ SessionMove \/ AnyKick \/ AnyReset
               \/ SessionClock

SpecSession == InitMount /\ [][NextSession]_vars

----------------------------------------------------------------------------
(* Controls: the movement keys and updateMovement, one animation frame *)

speed     == 15          \* const speed = 15
minSpeed  == 2000        \* const minSpeed = 2.0
stopSpeed == 100         \* Math.abs(velocity) < 0.1
liftAmount == 50         \* const liftAmount = 0.05

\* onKeyDown (down) and onKeyUp of a movement key; pressed holds the keys
\* whose moveForward, moveBackward, moveLeft or moveRight ref is true
MovementKey(code, down) ==
    /\ keyCount < MaxMoveKeys
    /\ (code \in actor.pressed) # down
    /\ keyCount' = keyCount + 1
    /\ lastKey' = code
    /\ actor' = IF down
                THEN [actor EXCEPT !.pressed = @ \cup {code}, !.isWalking = TRUE]
                ELSE [actor EXCEPT !.pressed = @ \ {code},
                                   !.isWalking = IF actor.pressed = {code} THEN FALSE ELSE @]
    /\ UNCHANGED <<now, playerPos, playerYaw, playerVars, playerScore,
                   otherPlayers, npcs, timers, calls, holdVars, sceneVars>>

DeceleratedNoStop(v) == RoundDiv(v * 9, 10)

\* velocity *= 0.9, and the complete stop below 0.1
Decelerated(v) ==
    LET slowed == RoundDiv(v * 9, 10)
    IN  IF Abs(slowed) < stopSpeed THEN 0 ELSE slowed

\* updateMovement, for a yaw of playerYaw quarter turns
UpdateMovement ==
    LET Held(code) == IF code \in actor.pressed THEN 1 ELSE 0
        Sign(t) == IF t > 0 THEN 1 ELSE IF t < 0 THEN -1 ELSE 0
        dz == Held("KeyW") - Held("KeyS")
        dx == Held("KeyD") - Held("KeyA")
        unit == IF dx # 0 /\ dz # 0 THEN 707 ELSE 1000
        sin == CASE playerYaw = 0 -> 0 [] playerYaw = 1 -> 1
                 [] playerYaw = 2 -> 0 [] playerYaw = 3 -> -1
        cos == CASE playerYaw = 0 -> 1 [] playerYaw = 1 -> 0
                 [] playerYaw = 2 -> -1 [] playerYaw = 3 -> 0
        rotatedX == dz * unit * sin + dx * unit * cos
        rotatedZ == dz * unit * cos - dx * unit * sin
        targetVX == rotatedX * speed
        targetVZ == rotatedZ * speed
        blendedX == actor.velX + RoundDiv(targetVX - actor.velX, 2)
        blendedZ == actor.velZ + RoundDiv(targetVZ - actor.velZ, 2)
        slowedX == Decelerated(actor.velX)
        slowedZ == Decelerated(actor.velZ)
    IN  /\ IF dz # 0 \/ dx # 0
           THEN /\ actor' = [actor EXCEPT
                       !.velX = IF Abs(blendedX) < minSpeed /\ dx # 0
                                THEN Sign(targetVX) * minSpeed ELSE blendedX,
                       !.velZ = IF Abs(blendedZ) < minSpeed /\ dz # 0
                                THEN Sign(targetVZ) * minSpeed ELSE blendedZ,
                       !.isWalking = TRUE]
                /\ playerPos' = IF playerPos.y < 1200
                                THEN [playerPos EXCEPT !.y = @ + liftAmount]
                                ELSE playerPos
           ELSE /\ actor' = [actor EXCEPT
                       !.velX = slowedX,
                       !.velZ = slowedZ,
                       !.isWalking = IF Abs(slowedX) < 500 /\ Abs(slowedZ) < 500
                                     THEN FALSE ELSE @]
                /\ UNCHANGED playerPos
        /\ UNCHANGED <<now, playerYaw, playerVars, playerScore, otherPlayers,
                       npcs, timers, calls, holdVars, keyVars, sceneVars>>

\* the player uses the keys W and D
NextMovement ==
    \/ \E code \in {"KeyW", "KeyD"}, down \in BOOLEAN : MovementKey(code, down)
    \/ UpdateMovement

SpecMovement == Init /\ [][NextMovement]_vars

\* requestAnimationFrame(updateMovement) at the end of every updateMovement:
\* the frames keep coming
FairSpecMovement == SpecMovement /\ WF_vars(UpdateMovement)

----------------------------------------------------------------------------
(* Animation frames, callback by callback *)

physicsGap == 33         \* time - lastTime >= 33

ReregisteredUntracked(entry) == [fn |-> entry.fn, held |-> FALSE]

\* requestAnimationFrame at the end of a callback: updateNPCs stores the new
\* id in updateIntervalRef, the other loops keep the id of their effect run
Reregistered(entry) == [fn |-> entry.fn, held |-> entry.fn = "updateNPCs"]

\* the browser runs the callbacks of the list in the order they were
\* requested; each requests its next frame. Of what the callbacks do, the
\* writes that schedule or re-render are kept: lastTime of physicsLoop and
\* setPlayerPosition and setNearbyObjects of updatePlayerPosition
RunFrameCallbacks ==
    /\ now + RafDt <= LoopsEnd
    /\ ~scene.positionSet
    /\ scene.heldEffectFor = heldObject
    /\ now' = now + RafDt
    /\ LET synced == \E i \in DOMAIN scene.raf : scene.raf[i].fn = "updatePlayerPosition"
           stepped == /\ \E i \in DOMAIN scene.raf : scene.raf[i].fn = "physicsLoop"
                      /\ now + RafDt - scene.lastTime >= physicsGap
       IN  /\ scene' = [scene EXCEPT
                  !.ran = [i \in DOMAIN scene.raf |-> scene.raf[i].fn],
                  !.raf = [i \in DOMAIN scene.raf |-> Reregistered(scene.raf[i])],
                  !.lastTime = IF stepped THEN now + RafDt ELSE @,
                  !.positionSet = synced]
           /\ nearbyObjects' = IF synced THEN NearbyObjects(objects, playerPos)
                                ELSE nearbyObjects
    /\ UNCHANGED <<playerPos, playerYaw, playerVars, playerScore, otherPlayers,
                   npcs, timers, calls, objects, heldObject, heldLoops,
                   throwChecks, lastCall, keyVars, actor, spawnTimers, game>>

\* the render after setPlayerPosition: NPCManager's update effect runs again,
\* its cleanup cancels updateIntervalRef.current and the new run requests a
\* frame for the new updateNPCs
UpdateEffectRerun ==
    /\ scene.positionSet
    /\ scene' = [scene EXCEPT
           !.raf = Append(SelectSeq(@, LAMBDA e : ~(e.fn = "updateNPCs" /\ e.held)),
                          [fn |-> "updateNPCs", held |-> TRUE]),
           !.positionSet = FALSE]
    /\ UNCHANGED <<now, playerPos, playerYaw, playerVars, playerScore,
                   otherPlayers, npcs, timers, calls, holdVars, keyVars, actor,
                   spawnTimers, game>>

\* the effect on [heldObject, playerAPI] after heldObject has changed: the
\* cleanup of the run before cancels its frameId, the new run requests a frame
\* for updateHeldObjectPosition when an object is held
HeldObjectEffect ==
    /\ scene.heldEffectFor # heldObject
    /\ LET kept == IF scene.heldEffectFor = "none" THEN scene.raf
                   ELSE SelectSeq(scene.raf,
                            LAMBDA e : ~(e.fn = "updateHeldObjectPosition" /\ e.held))
       IN  scene' = [scene EXCEPT
               !.raf = IF heldObject = "none" THEN kept
                       ELSE Append(kept, [fn |-> "updateHeldObjectPosition",
                                          held |-> TRUE]),
               !.heldEffectFor = heldObject]
    /\ UNCHANGED <<now, playerPos, playerYaw, playerVars, playerScore,
                   otherPlayers, npcs, timers, calls, holdVars, keyVars, actor,
                   spawnTimers, game>>

NextLoops == AnyPickup \/ AnyKey \/ RunFrameCallbacks \/ UpdateEffectRerun
             \/ HeldObjectEffect

SpecLoops == Init /\ [][NextLoops]_vars

----------------------------------------------------------------------------
(* Game: the handlers of the game state and the timer *)

\* an interval callback that stops one tick late
TimerTickLate ==
    /\ game.interval
    /\ game' = IF game.timeRemaining < 0
               THEN [game EXCEPT !.timeRemaining = 0, !.interval = FALSE]
               ELSE [game EXCEPT !.timeRemaining = @ - 1]
    /\ UNCHANGED <<now, playerPos, playerYaw, playerVars, playerScore,
                   otherPlayers, npcs, timers, calls, holdVars, keyVars, actor,
                   scene, spawnTimers>>

\* the callback of the timer effect's setInterval
TimerTick ==
    /\ game.interval
    /\ game' = IF game.timeRemaining <= 0
               THEN [game EXCEPT !.timeRemaining = 0, !.interval = FALSE]
               ELSE [game EXCEPT !.timeRemaining = @ - 1]
    /\ UNCHANGED <<now, playerPos, playerYaw, playerVars, playerScore,
                   otherPlayers, npcs, timers, calls, holdVars, keyVars, actor,
                   scene, spawnTimers>>

\* a handler of Game or a button of its screens, with the effects on
\* [gameState] of the commit that follows: the timer effect clears its
\* interval and sets a new one when the state is 'playing', the menu effect
\* sets the time to 300
GameHandler(name) ==
    LET state == game.gameState
        reset == name \in {"handleStartGame", "handleRestartGame", "handleReturnToMenu"}
        next ==
            CASE name = "handleStartGame" -> "playing"
              [] name = "handleRestartGame" -> "playing"
              [] name = "handleReturnToMenu" -> "menu"
              [] name = "handlePauseGame" ->
                   IF state = "playing" THEN "paused"
                   ELSE IF state = "paused" THEN "playing" ELSE state
              [] name = "handleShowOptions" -> IF state = "menu" THEN "options" ELSE "menu"
              [] name = "handleShowCredits" -> IF state = "menu" THEN "credits" ELSE "menu"
              [] name = "back" -> "menu"
              [] name = "resume" -> "playing"
    IN  /\ CASE name = "handleStartGame" -> state = "menu"
             [] name = "handleRestartGame" -> state = "playing"
             [] name = "handleReturnToMenu" -> state = "paused"
             [] name = "handlePauseGame" -> state = "playing"
             [] name = "handleShowOptions" -> state \in {"menu", "paused"}
             [] name = "handleShowCredits" -> state = "menu"
             [] name = "back" -> state \in {"options", "credits"}
             [] name = "resume" -> state = "paused"
        /\ reset => game.sceneKey < MaxSceneKey
        /\ game' = [gameState |-> next,
                    timeRemaining |-> IF reset \/ (next = "menu" /\ next # state)
                                      THEN gameTime ELSE game.timeRemaining,
                    interval |-> IF next # state THEN next = "playing"
                                 ELSE game.interval,
                    sceneKey |-> IF reset THEN game.sceneKey + 1 ELSE game.sceneKey]
        /\ UNCHANGED <<now, playerPos, playerYaw, playerVars, playerScore,
                       otherPlayers, npcs, timers, calls, holdVars, keyVars,
                       actor, scene, spawnTimers>>

NextGame ==
    \/ \E name \in {"handleStartGame", "handleRestartGame", "handleReturnToMenu",
                     "handlePauseGame", "handleShowOptions", "handleShowCredits",
                     "back", "resume"} : GameHandler(name)
    \/ TimerTick

SpecGame == InitMount /\ [][NextGame]_vars

----------------------------------------------------------------------------
(* Health range *)

\* C1: the health of every actor (local player, its model, NPCs, remote
\* players) stays within [0, 100] whatever the handlers are called with.
HealthInRange ==
    /\ playerHealth \in 0..100
    /\ modelHealth \in 0..100
    /\ \A i \in DOMAIN npcs : npcs[i].health \in 0..100
    /\ \A id \in DOMAIN otherPlayers : otherPlayers[id] \in 0..100

\* a remote player's model holds the health 150 an update carried
RemoteHealthForwarded == \E id \in DOMAIN otherPlayers : otherPlayers[id] = 150

----------------------------------------------------------------------------
(* Defeat and respawn of an NPC *)

\* indices of npcs.current: spawnNPC has run once
NPCSlots == {1}

AtSpawnPoint(npc) == \E k \in DOMAIN spawnPoints : npc.pos = spawnPoints[k]

Reappeared(npc) ==
    npc.visible /\ npc.health = 100 /\ AtSpawnPoint(npc) /\ npc.vel = Zero

HiddenUntilRespawn ==
    \A i \in NPCSlots :
        npcs[i].health = 0 =>
            /\ ~npcs[i].visible
            /\ \/ npcs'[i].health = 0 /\ ~npcs'[i].visible
               \/ Reappeared(npcs'[i])

\* C2: an NPC whose health is 0 is invisible and stays invisible with health 0
\* until a step that shows it again with health 100 at a configured spawn
\* point with zero velocity, and that step eventually comes.
DefeatedThenRespawned ==
    /\ [][HiddenUntilRespawn]_vars
    /\ \A i \in NPCSlots : (npcs[i].health = 0) ~> Reappeared(npcs[i])

\* an NPC was defeated after a frame had run and has come back: the player has
\* the award, the respawn delay has passed and no respawn is pending any more
BackFromDefeat ==
    /\ playerScore >= defeatPoints
    /\ now >= StartTime + FrameDt + respawnDelay
    /\ \A k \in DOMAIN timers : timers[k].kind # "respawn"
    /\ \E i \in NPCSlots : Reappeared(npcs[i])

\* C3: a damage call made while an NPC is defeated (health 0, respawn pending)
\* changes nothing: no second award, no second respawn timer.
DefeatedNotDamaged ==
    [][(calls' # calls /\ \E i \in DOMAIN npcs : npcs[i].health = 0 /\ ~npcs[i].visible)
         => (npcs' = npcs /\ timers' = timers /\ playerScore' = playerScore)]_vars

\* two respawns are pending for one NPC
TwoRespawnsPending ==
    \E j, k \in DOMAIN timers :
        j # k /\ timers[j].kind = "respawn" /\ timers[k].kind = "respawn"
              /\ timers[j].npc = timers[k].npc

\* C4: while an NPC's health is 0 it starts no attack, and no pending kick of
\* it delivers its damage to the player.
DefeatedNotAttacking ==
    [][\A i \in DOMAIN npcs :
          (npcs[i].health = 0 /\ npcs'[i].health = 0) =>
              /\ npcs'[i].lastAttackTime = npcs[i].lastAttackTime
              /\ \A k \in DOMAIN timers :
                    (timers[k].kind = "kick" /\ timers[k].npc = i) => ~KickTimer(k)]_vars

\* a defeated NPC has just started an attack
DefeatedAttacker ==
    \E i \in DOMAIN npcs :
        npcs[i].health = 0 /\ ~npcs[i].visible /\ npcs[i].lastAttackTime = now

\* C5: an NPC starts an attack only when more than attackCooldown has passed
\* since its last one, and starting one sets lastAttackTime to now.
AttackCooldownKept ==
    [][\A i \in DOMAIN npcs :
          npcs'[i].lastAttackTime # npcs[i].lastAttackTime =>
              /\ npcs'[i].lastAttackTime = now'
              /\ now' - npcs[i].lastAttackTime > attackCooldown]_vars

\* two punches have landed: the NPC has attacked twice
AttackedTwice ==
    /\ playerHealth = 100 - 2 * npcPunchDamage
    /\ \E i \in DOMAIN npcs : npcs[i].lastAttackTime >= StartTime + attackCooldown

----------------------------------------------------------------------------
(* Holding, throwing and picking up *)

Kinematic == {o \in ObjectIds : objects[o].mode = "KINEMATIC"}

HeldAnchoredThrownFree ==
    [][ShortFrame =>
          \A o \in ObjectIds :
              /\ heldObject = o =>
                    objects'[o].pos = HandPosition(objects[o].type, playerPos, playerYaw)
              /\ (heldObject # o /\ objects[o].mode = "DYNAMIC") =>
                    objects'[o] = SteppedBody(objects[o])]_vars

\* a loop that has run keeps writing the hand position into a thrown object
StaleLoopOnThrown ==
    \E l \in heldLoops :
        /\ ~l.first
        /\ heldObject = "none"
        /\ objects[l.obj].mode = "DYNAMIC"
        /\ objects[l.obj].vel # Zero
        /\ objects[l.obj].pos = HandPosition(objects[l.obj].type, playerPos, playerYaw)

\* the thrown object o is within the hit radius of NPC i and fast enough
InHitReach(o, i) ==
    /\ npcs[i].visible
    /\ DistSq(objects[o].pos, npcs[i].pos) < hitRadius * hitRadius
    /\ LengthSq(objects[o].vel) > minHitSpeed * minHitSpeed

\* C8: a collision check of a throw that finds the object within the hit
\* radius of an NPC and faster than the minimum speed damages that NPC by the
\* throw's damage and ends the checks of that throw.
ThrowHitDamages ==
    [][\A k \in DOMAIN throwChecks :
          (/\ CheckCollision(k)
           /\ throwChecks[k].checks < maxChecks
           /\ \E i \in DOMAIN npcs : InHitReach(throwChecks[k].obj, i))
          => /\ Len(throwChecks') = Len(throwChecks) - 1
             /\ \E i \in DOMAIN npcs :
                   /\ InHitReach(throwChecks[k].obj, i)
                   /\ npcs'[i].health =
                         DamagedHealth(npcs[i].health,
                                       ThrowDamage(objects[throwChecks[k].obj].type))]_vars

\* a check has run with the object in reach of an NPC, and the NPC is unhurt
MissedHit ==
    \E k \in DOMAIN throwChecks :
        /\ throwChecks[k].checks >= 1
        /\ throwChecks[k].due = now + checkInterval
        /\ \E i \in DOMAIN npcs :
              InHitReach(throwChecks[k].obj, i) /\ npcs[i].health = 100

VelocityTolerance == 30

\* C9: a throw of the held object makes its body Dynamic, gives it the
\* velocity throwForce (30 for a bottle, 20 otherwise) times the normalized
\* forward direction with y set to 0.3, and clears heldObject.
ThrowSetsVelocity ==
    [][(KeyDown("KeyQ") /\ heldObject # "none") =>
          LET o == heldObject
              v == objects'[o].vel
              force == IF objects[o].type = "bottle" THEN 30000 ELSE 20000
              forward == Rotated(Vec(0, 0, -1000), playerYaw)
              expected == Scaled(Normalize(Vec(forward.x, 300, forward.z)), force)
          IN  /\ heldObject' = "none"
              /\ objects'[o].mode = "DYNAMIC"
              /\ Abs(Length(v) - force) <= VelocityTolerance
              /\ Abs(v.x - expected.x) <= VelocityTolerance
              /\ Abs(v.y - expected.y) <= VelocityTolerance
              /\ Abs(v.z - expected.z) <= VelocityTolerance]_vars

\* the bottle has just been thrown backwards: Dynamic, with the throw's speed
JustThrown ==
    /\ lastCall = [name |-> "handleThrow", arg |-> "none", held |-> "testBottle"]
    /\ heldObject = "none"
    /\ playerYaw = 2
    /\ objects["testBottle"].mode = "DYNAMIC"
    /\ objects["testBottle"].vel.z > 0
    /\ Abs(Length(objects["testBottle"].vel) - 30000) <= VelocityTolerance

arcThreshold == 500

\* the forward arc: the dot product of the facing vector and the direction to
\* the object is above the threshold
InForwardArc(pp, yaw, pos) ==
    LET forward == Rotated(Vec(0, 0, -1000), yaw)
        toObject == Normalize(Sub(pos, pp))
    IN  forward.x * toObject.x + forward.y * toObject.y + forward.z * toObject.z
            > arcThreshold * 1000

\* the objects a pickup request may take
Qualifying ==
    {o \in nearbyObjects :
        o # heldObject /\ InForwardArc(playerPos, playerYaw, objects[o].pos)}

\* C10: KeyE puts a qualifying object into the Held state when there is one,
\* and changes neither heldObject nor any body when there is none.
KeyEPicksUp ==
    [][KeyDown("KeyE") =>
          IF Qualifying # {}
          THEN heldObject' \in Qualifying /\ objects'[heldObject'].mode = "KINEMATIC"
          ELSE UNCHANGED <<heldObject, objects>>]_vars

\* KeyE was pressed with the test bottle in range and ahead, and nothing is held
KeyEIgnored ==
    /\ lastKey = "KeyE"
    /\ lastCall = [name |-> "handlePickup", arg |-> "none", held |-> "none"]
    /\ "testBottle" \in Qualifying
    /\ heldObject = "none"

----------------------------------------------------------------------------
(* Throw with empty hands *)

\* C11: a throw with no held object is a silent no-op: no body changes mode or
\* velocity, heldObject stays null and no collision-check timer is started.
ThrowEmptyHanded ==
    [][(KeyDown("KeyQ") /\ heldObject = "none")
          => /\ objects' = objects
             /\ heldObject' = "none"
             /\ throwChecks' = throwChecks
             /\ heldLoops' = heldLoops
             /\ timers' = timers]_vars

\* KeyQ was pressed with nothing held while the bottle lay within reach
ThrewNothing ==
    /\ lastKey = "KeyQ"
    /\ lastCall.name = "handleThrow"
    /\ lastCall.held = "none"
    /\ "testBottle" \in nearbyObjects

----------------------------------------------------------------------------
(* Defeat of the player *)

----------------------------------------------------------------------------
(* One attack animation at a time *)

\* C13: at most one attack animation is active per Actor: isPunching and
\* isKicking of the local Player are never true together.
OneAttackAtATime == ~(actor.isPunching /\ actor.isKicking)

\* the kick key was pressed while the punch tween was running
KickDuringPunch ==
    /\ lastKey = "KeyX"
    /\ actor.isPunching
    /\ actor.kickStart >= actor.punchStart
    /\ actor.kickStart < actor.punchStart + punchDuration

----------------------------------------------------------------------------
(* Release of the attack lock *)

\* C14: every punch or kick that was accepted eventually releases its lock:
\* with the frames coming, isPunching and isKicking return to false.
AttackLockReleased ==
    /\ actor.isPunching ~> ~actor.isPunching
    /\ actor.isKicking ~> ~actor.isKicking

\* a punch was accepted after the lock of an earlier punch had been released
PunchedAgain ==
    /\ lastKey = "KeyZ"
    /\ keyCount = 2
    /\ actor.isPunching
    /\ actor.punchStart >= StartTime + punchDuration

----------------------------------------------------------------------------
(* Jump only from the ground *)

\* the body's centre is above its resting height: the foot is off the floor
Airborne == playerPos.y > footRest

\* C15: jump() is a no-op while the Actor is airborne: a jump request made in
\* the air leaves the body's vertical velocity as it is.
JumpOnlyGrounded ==
    [][(KeyDown("Space") /\ Airborne) => actor'.velY = actor.velY]_vars

\* a jump was accepted in the air, after the flag of the jump before it had
\* been cleared by its timer
JumpedInTheAir ==
    /\ lastKey = "Space"
    /\ keyCount = 2
    /\ Airborne
    /\ now >= StartTime + jumpFlagDelay
    /\ actor.velY = jumpVelocity
    /\ \E k \in DOMAIN timers : timers[k].kind = "jump" /\ timers[k].due = now + jumpFlagDelay

-----------------------------------------------------------------------------
(* Scenario A: a punch at an NPC one unit ahead *)

\* NPC i stands alive and visible at distance 1.0 straight ahead of the player
OneAhead(i) ==
    /\ i \in DOMAIN npcs
    /\ npcs[i].health > 0
    /\ npcs[i].visible
    /\ LET ahead == Rotated(Vec(0, 0, -1000), playerYaw)
       IN  /\ npcs[i].pos.x = playerPos.x + ahead.x
           /\ npcs[i].pos.z = playerPos.z + ahead.z

\* C18: a punch that starts (KeyZ while no punch is running) with a live NPC
\* at distance 1.0 directly ahead lowers that NPC's health.
PunchLands ==
    [][\A i \in DOMAIN npcs :
          (KeyDown("KeyZ") /\ ~actor.isPunching /\ OneAhead(i))
              => npcs'[i].health < npcs[i].health]_vars

\* the punch has started and runs, the NPC one unit ahead is at full health
PunchedOneAhead ==
    /\ lastKey = "KeyZ"
    /\ actor.isPunching
    /\ actor.punchStart = now
    /\ \E i \in DOMAIN npcs : OneAhead(i) /\ npcs[i].health = 100

-----------------------------------------------------------------------------
(* Melee damage and the reach of the attacker *)

\* the player stands within the attack distance of NPC i
InReach(i) == DistSq(npcs[i].pos, playerPos) < attackDistance * attackDistance

\* C17: a swing registers damage only against an actor within the damage
\* radius of the attacker: whenever the damage of an NPC's kick is applied to
\* the player, the player is within the attack distance of that NPC.
KickLandsInReach ==
    [][\A k \in DOMAIN timers :
          (KickTimer(k) /\ playerHealth' < playerHealth) => InReach(timers[k].npc)]_vars

\* the player took the damage of one kick and nothing else while standing
\* out of the reach of every NPC
KickedOutOfReach ==
    /\ healthLog = [from |-> 100, to |-> 100 - npcKickDamage]
    /\ \A i \in DOMAIN npcs : ~InReach(i)
    /\ \A k \in DOMAIN timers : timers[k].kind # "kick"

-----------------------------------------------------------------------------
(* The population cap *)

\* C19: there are never more than maxNPCs NPCs, whatever the order of the
\* immediate spawn, the spawn timers and the runs of the spawn effect.
PopulationCapped == Len(npcs) <= maxNPCs

\* the spawn effect has run twice, the cap is reached and the last spawnNPC
\* call, made by a timer, returned at the cap
SpawnRefusedAtCap ==
    /\ Len(npcs) = maxNPCs
    /\ scene.spawnRuns >= 2
    /\ scene.lastSpawn = "full"
    /\ now >= StartTime + spawnInterval

-----------------------------------------------------------------------------
(* One local player per scene *)

\* C20: one Scene creates its local player at most once, at (0, 2, 0),
\* however often the player creation effect runs.
OnePlayerPerScene ==
    /\ Len(scene.localPlayers) <= 1
    /\ \A k \in DOMAIN scene.localPlayers : scene.localPlayers[k] = Vec(0, 2000, 0)

\* the effect has run again after the run that created the player
PlayerEffectRanAgain ==
    /\ scene.phase = "mounted"
    /\ scene.playerRuns = MaxEffectRuns
    /\ scene.playerCreatedRef
    /\ Len(scene.localPlayers) = 1

-----------------------------------------------------------------------------
(* Scenario D: two NPCs within the avoidance radius *)

\* the NPCs as the loop of a frame finds them when the turn of NPC i comes:
\* those before i have taken their step, i has its target offset of the frame
TurnList(i) ==
    [j \in DOMAIN npcs |->
        IF j < i THEN npcs'[j]
        ELSE IF j = i THEN [npcs[j] EXCEPT !.targetOffset = npcs'[j].targetOffset]
        ELSE npcs[j]]

\* 0 < distance < avoidanceDistance
WithinAvoidance(a, b) ==
    /\ Length(Sub(a, b)) < avoidanceDistance
    /\ Length(Sub(a, b)) > 0

\* attackDistance < distance to the player < followDistance
InPursuit(pos) ==
    /\ DistSq(pos, playerPos) < followDistance * followDistance
    /\ DistSq(pos, playerPos) > attackDistance * attackDistance

\* C16 as stated: in a frame every NPC that has another NPC within the
\* avoidance radius (and not at its own place) is pushed, so that its
\* position changes.
EachRepelled ==
    [][SessionFrame =>
          \A i, j \in DOMAIN npcs :
             (i # j /\ WithinAvoidance(npcs[i].pos, npcs[j].pos))
                 => npcs'[i].pos # npcs[i].pos]_vars

\* C16: in a frame, an NPC that pursues the player (it is farther than the
\* attack distance and nearer than the follow distance) gets from every other
\* NPC at a distance d, 0 < d < avoidanceDistance, a nonzero repulsion that
\* points away from that NPC, and takes its step along the pursuit direction
\* blended with the repulsions; an NPC that does not pursue stays where it is.
RepelledInPursuit ==
    [][SessionFrame =>
          \A i \in DOMAIN npcs :
             LET list == TurnList(i)
             IN  IF InPursuit(npcs[i].pos)
                 THEN /\ \A j \in DOMAIN npcs \ {i} :
                            WithinAvoidance(list[i].pos, list[j].pos) =>
                               LET push == Repulsion(list[i].pos, list[j].pos)
                                   away == Sub(list[i].pos, list[j].pos)
                               IN  /\ push # Zero
                                   /\ push.x * away.x + push.y * away.y
                                         + push.z * away.z > 0
                      /\ \E r \in Draws : npcs'[i].pos = Walked(list, i, playerPos, r)
                      /\ npcs'[i].pos # npcs[i].pos
                 ELSE npcs'[i].pos = npcs[i].pos]_vars

\* after the first frame the two NPCs, spawned 1.17 apart and both pursuing
\* the player, are farther from each other than they were
PushedApart ==
    /\ Len(npcs) = 2
    /\ now = StartTime + FrameDt
    /\ playerPos = Vec(0, 2000, 0)
    /\ \A i \in DOMAIN npcs : InPursuit(npcs[i].pos)
    /\ \E a, b \in SessionOffsets :
          /\ a # b
          /\ DistSq(npcs[1].pos, npcs[2].pos) > DistSq(a, b)
          /\ DistSq(a, b) < avoidanceDistance * avoidanceDistance

-----------------------------------------------------------------------------
(* Timers of an unmounted scene *)

\* C21: once the Scene is unmounted no pending timer fires with an effect:
\* no NPC is spawned, respawned or unlocked, the player takes no damage and
\* no score is reported.
QuietAfterUnmount ==
    [][scene.phase = "unmounted"
          => UNCHANGED <<npcs, playerHealth, modelHealth, playerScore>>]_vars

-----------------------------------------------------------------------------
(* Removed remote players *)

\* C22: a remote player that is no longer in otherPlayersRef has no body in
\* the physics world.
NoBodyOfRemovedActor == scene.remoteBodies \subseteq DOMAIN otherPlayers

\* r1 was created and then missing from an update; its body is still there
BodyLeftBehind ==
    /\ "r1" \in scene.remoteBodies
    /\ "r1" \notin DOMAIN otherPlayers

-----------------------------------------------------------------------------
(* The attack lock of an NPC *)

\* C23: an NPC that has started an attack keeps isAttacking = true until its
\* reset timer is due: no step before that clears the flag.
AttackLockHeld ==
    [][\A k \in DOMAIN timers :
          (/\ timers[k].kind = "reset"
           /\ timers[k].due > now'
           /\ npcs[timers[k].npc].isAttacking)
              => npcs'[timers[k].npc].isAttacking]_vars

\* the flag of an NPC is clear although its reset timer is not due yet
UnlockedEarly ==
    \E k \in DOMAIN timers :
       /\ timers[k].kind = "reset"
       /\ timers[k].due > now
       /\ ~npcs[timers[k].npc].isAttacking
       /\ ~InReach(timers[k].npc)

-----------------------------------------------------------------------------
(* The end of the collision checks of a throw *)

\* C24: the collision checks of a throw end: no chain runs more than
\* maxChecks checks, and every pending chain is gone after a while.
ThrowChecksEnd ==
    /\ [](\A k \in DOMAIN throwChecks : throwChecks[k].checks <= maxChecks)
    /\ (throwChecks # << >>) ~> (throwChecks = << >>)

\* the bottle was thrown and its checks have run out
ChecksRanOut ==
    /\ lastCall = [name |-> "handleThrow", arg |-> "none", held |-> "testBottle"]
    /\ throwChecks = << >>
    /\ now >= StartTime + (maxChecks + 1) * checkInterval

-----------------------------------------------------------------------------
(* The score of a thrown hit *)

\* C25: a collision check that finds the thrown object within the hit radius
\* of an NPC and faster than the minimum speed adds the damage of the throw,
\* and nothing else, to the player's score.
ThrowHitScores ==
    [][\A k \in DOMAIN throwChecks :
          (/\ CheckCollision(k)
           /\ throwChecks[k].checks < maxChecks
           /\ \E i \in DOMAIN npcs : InHitReach(throwChecks[k].obj, i))
          => playerScore' = playerScore + ThrowDamage(objects[throwChecks[k].obj].type)]_vars

\* the checks of a throw have gone on past a check with the object in reach
\* of an NPC, and the score is still 0
UnscoredHit ==
    \E k \in DOMAIN throwChecks :
        /\ throwChecks[k].checks >= 2
        /\ playerScore = 0
        /\ \E i \in DOMAIN npcs : InHitReach(throwChecks[k].obj, i)

-----------------------------------------------------------------------------
(* The life cycle of an object: Free, Held, Thrown, Free *)

-----------------------------------------------------------------------------
(* No respawn of the local player *)

\* C27: the local player is not respawned: through the fight the player's
\* health never goes up, and from the moment it is 0 it is 0 in every later
\* state, with the Player model's health following it.
NoPlayerRespawn ==
    [][/\ playerHealth' <= playerHealth
       /\ modelHealth' <= modelHealth
       /\ playerHealth = 0 => playerHealth' = 0 /\ modelHealth' = 0]_vars

\* the fight has gone on to its last frame around a player who went down
\* earlier and took a hit since
DownToTheEnd ==
    /\ playerHealth = 0
    /\ modelHealth = 0
    /\ healthLog.from = 0
    /\ now + FrameDt > DefeatEnd

-----------------------------------------------------------------------------
(* Beyond the follow range *)

\* C28: an NPC that is at the follow distance or further from the player is
\* idle in a frame: the frame leaves its body position, its isAttacking flag
\* and its lastAttackTime as they were and sets no kick or reset timer for it,
\* and a frame in which every NPC is that far leaves the player's health as
\* it was.
IdleBeyondFollowRange ==
    [][now' = now + FrameDt =>
         /\ \A i \in DOMAIN npcs :
               DistSq(npcs[i].pos, playerPos) >= followDistance * followDistance
                  => /\ npcs'[i].pos = npcs[i].pos
                     /\ npcs'[i].isAttacking = npcs[i].isAttacking
                     /\ npcs'[i].lastAttackTime = npcs[i].lastAttackTime
                     /\ \A k \in DOMAIN timers' :
                           timers'[k].npc = i => k \in DOMAIN timers /\ timers[k] = timers'[k]
         /\ (\A i \in DOMAIN npcs :
               DistSq(npcs[i].pos, playerPos) >= followDistance * followDistance)
               => playerHealth' = playerHealth /\ modelHealth' = modelHealth]_vars

\* the player went out of range before the first frame: two frames later the
\* NPC stands where it was created, has not attacked and the player is unhurt
StoodIdleOutOfRange ==
    /\ now >= StartTime + 2 * FrameDt
    /\ calls = 0
    /\ playerHealth = 100
    /\ timers = << >>
    /\ DistSq(npcs[1].pos, playerPos) >= followDistance * followDistance
    /\ \E name \in NPCNames, index \in FirstSpawnIndices, offset \in SpawnOffsets,
          target \in TargetOffsets :
          npcs[1] = [NewNPC(name, index, offset, target, StartTime)
                        EXCEPT !.vel = npcs[1].vel]

-----------------------------------------------------------------------------
(* NPC attacks are on the player *)

\* C29: an NPC attack changes no NPC's health: a step in which an NPC starts
\* an attack (its lastAttackTime is set) or in which the delayed damage of a
\* kick is delivered leaves the health and the visibility of every NPC as they
\* were, and what health changes in that step is the player's, which goes
\* down by at most the punches of the frame or by the kick.
NPCAttacksHitPlayerOnly ==
    [][\/ \E i \in DOMAIN npcs : npcs'[i].lastAttackTime # npcs[i].lastAttackTime
       \/ \E k \in DOMAIN timers : timers[k].kind = "kick" /\ timers' = RemoveAt(timers, k)
       => /\ Len(npcs') >= Len(npcs)
          /\ \A i \in DOMAIN npcs : /\ npcs'[i].health = npcs[i].health
                                   /\ npcs'[i].visible = npcs[i].visible
          /\ playerHealth' <= playerHealth
          /\ playerHealth' >= playerHealth - Max(npcKickDamage, npcPunchDamage * Len(npcs))]_vars

\* with two NPCs in the scene the player has been hit and every NPC has the
\* health it was created with
HitAmongNPCs ==
    /\ Len(npcs) >= 2
    /\ healthLog.to < healthLog.from
    /\ playerHealth < 100
    /\ \A i \in DOMAIN npcs : npcs[i].health = 100 /\ npcs[i].lastAttackTime <= now
    /\ \E i \in DOMAIN npcs : npcs[i].lastAttackTime > StartTime

-----------------------------------------------------------------------------
(* Coming to rest *)

-----------------------------------------------------------------------------
(* Damage for an id no NPC has *)

\* C32: handleNPCDamage called with an id that no NPC of the list has changes
\* nothing: the NPCs (health and visibility with them), the score and the
\* timers stay as they were.
UnknownIdIsNoOp ==
    [][\A id \in DamageIds, damage \in DamageAmounts :
          (HandleNPCDamage(id, damage) /\ \A i \in DOMAIN npcs : npcs[i].id # id)
             => UNCHANGED <<npcs, playerScore, timers>>]_vars

\* every call of the run has been made and none has left a trace: they all
\* carried an id no NPC has
OnlyUnknownIdsCalled ==
    /\ calls = MaxCalls
    /\ playerScore = 0
    /\ \A i \in DOMAIN npcs : npcs[i].health = 100 /\ npcs[i].visible
    /\ \A k \in DOMAIN timers : timers[k].kind # "respawn"

-----------------------------------------------------------------------------
(* The ids of the NPCs *)

\* C33: no two NPCs of the list have the same id.
DistinctNPCIds ==
    \A i, j \in DOMAIN npcs : npcs[i].id = npcs[j].id => i = j

\* two NPCs were spawned with the same name, and a damage call with that id
\* would find the first of them only
SecondNPCSameId ==
    /\ Len(npcs) >= 2
    /\ npcs[2].id = npcs[1].id
    /\ FindNPC(npcs, npcs[2].id) = 1

-----------------------------------------------------------------------------
(* One damage event for every NPC attack *)

\* C34: a step in which NPCs start an attack (lastAttackTime is set) takes 8
\* from the player for every attacker that punches and sets one kick timer,
\* due 300 ms later, for every attacker that kicks, and nothing else of the
\* two; a kick timer that runs takes 15 and is gone with it; the player's
\* health changes in no other step; and every kick timer set is run.
OneDamagePerAttack ==
    /\ [][LET fired == {i \in DOMAIN npcs :
                          npcs'[i].lastAttackTime # npcs[i].lastAttackTime}
              added == {k \in DOMAIN timers' : k > Len(timers) /\ timers'[k].kind = "kick"}
              kicked == {i \in fired : \E k \in added :
                            timers'[k] = [kind |-> "kick", npc |-> i,
                                          due |-> now' + kickDelay]}
              ran == {k \in DOMAIN timers :
                         timers[k].kind = "kick" /\ timers' = RemoveAt(timers, k)}
          IN  /\ fired # {} =>
                    /\ Cardinality(added) = Cardinality(kicked)
                    /\ playerHealth' =
                          Max(0, playerHealth - npcPunchDamage * Cardinality(fired \ kicked))
              /\ ran # {} => playerHealth' = Max(0, playerHealth - npcKickDamage)
              /\ (fired = {} /\ ran = {}) =>
                    /\ playerHealth' = playerHealth
                    /\ \A k \in DOMAIN timers' : timers'[k].kind = "kick" =>
                          \E j \in DOMAIN timers : timers[j] = timers'[k]]_vars
    /\ (\E k \in DOMAIN timers : timers[k].kind = "kick")
          ~> (\A k \in DOMAIN timers : timers[k].kind # "kick")

\* the NPC has kicked and the one damage of the kick has arrived
KickDelivered ==
    /\ healthLog = [from |-> 100, to |-> 100 - npcKickDamage]
    /\ playerHealth = 100 - npcKickDamage
    /\ \A k \in DOMAIN timers : timers[k].kind # "kick"
    /\ \E i \in DOMAIN npcs : npcs[i].lastAttackTime + kickDelay <= now
                               /\ npcs[i].lastAttackTime > StartTime

-----------------------------------------------------------------------------
(* The order of the callbacks of a frame *)

\* C31: physicsLoop is the first callback of every frame, and two callbacks
\* that run in a frame and in the frame after it run in the same order in
\* both.
FixedCallbackOrder ==
    [][now' # now =>
         /\ scene'.ran[1] = "physicsLoop"
         /\ \A i, j \in DOMAIN scene.ran, k, l \in DOMAIN scene'.ran :
               (i < j /\ scene.ran[i] = scene'.ran[l] /\ scene.ran[j] = scene'.ran[k]
                  /\ scene.ran[i] # scene.ran[j])
                  => \E m \in DOMAIN scene'.ran : m < k /\ scene'.ran[m] = scene.ran[i]]_vars

\* physicsLoop first, and updateNPCs after updatePlayerPosition where the
\* frame before had them the other way round
OrderChanged ==
    /\ scene.ran # << >>
    /\ scene.ran[1] = "physicsLoop"
    /\ scene.ran = <<"physicsLoop", "updateMovement", "updatePlayerPosition",
                     "updateNPCs">>
    /\ now = StartTime + 2 * RafDt

-----------------------------------------------------------------------------
(* One NPC update loop *)

\* C35: at most one updateNPCs callback is requested at any time, through
\* every run of the update effect, and no frame runs updateNPCs more than
\* once.
OneUpdateLoop ==
    /\ Len(SelectSeq(scene.raf, LAMBDA e : e.fn = "updateNPCs")) <= 1
    /\ Len(SelectSeq(scene.ran, LAMBDA f : f = "updateNPCs")) <= 1

\* the update effect has run again after each of three frames, and the one
\* updateNPCs of the list is the one its last run requested
LoopReplacedEachFrame ==
    /\ now >= StartTime + 3 * RafDt
    /\ ~scene.positionSet
    /\ Len(SelectSeq(scene.ran, LAMBDA f : f = "updateNPCs")) = 1
    /\ scene.raf[Len(scene.raf)] = [fn |-> "updateNPCs", held |-> TRUE]

-----------------------------------------------------------------------------
(* The game timer *)

\* C36: the time remaining is between 0 and 300; it goes down by 1 at a time
\* and only in the state 'playing'; it does not change while the game stays
\* paused; it goes up only to 300; and it is 300 after a start, a restart or a
\* return to the menu (the handlers that change sceneKey) and whenever the
\* state has become 'menu'.
TimerInRange ==
    /\ [](game.timeRemaining >= 0 /\ game.timeRemaining <= gameTime)
    /\ [][/\ (game'.timeRemaining < game.timeRemaining)
                => (/\ game'.timeRemaining = game.timeRemaining - 1
                    /\ game.gameState = "playing"
                    /\ game'.gameState = "playing")
          /\ (game'.timeRemaining > game.timeRemaining)
                => (game'.timeRemaining = gameTime)
          /\ (game.gameState = "paused" /\ game'.gameState \in {"paused", "playing"})
                => (game'.timeRemaining = game.timeRemaining)
          /\ (game'.sceneKey # game.sceneKey) => (game'.timeRemaining = gameTime)
          /\ (game'.gameState = "menu" /\ game.gameState # "menu")
                => (game'.timeRemaining = gameTime)]_vars

\* the time has run out in a round that is still being played, and the
\* interval has cleared itself at 0
TimeRanOut ==
    /\ game.gameState = "playing"
    /\ game.timeRemaining = 0
    /\ ~game.interval

====
